---- MODULE Spec2Model ----
(***************************************************************************)
(* A model of remodel (zyantific/remodel): the compile-time pipeline that  *)
(* turns the declared type of a Field<T> into the type the field wraps     *)
(* (AnalyzeQualifiers, CloneQualifier, ApplyQualifierStack,                *)
(* RewriteWrappers, FieldImpl), and the run-time part that resolves a      *)
(* field's address on every access (PtrGetters, FieldBase::rawPtr,         *)
(* Field::valueRef) and forwards operators to the wrapped object.          *)
(***************************************************************************)
EXTENDS Integers, Sequences, FiniteSets, TLC

(***************************************************************************)
(* Bounds of the model.                                                    *)
(***************************************************************************)
\* deepest nesting of pointer / reference / array layers in a declared type
MaxDepth == 3
\* largest array length N of a T[N] layer (lengths are 2..MaxArrLen)
MaxArrLen == 2

(***************************************************************************)
(* Declared types.  A type is a base (a named, possibly cv-qualified type) *)
(* under a sequence of layers, outermost layer first.                      *)
(***************************************************************************)
CvSets == SUBSET {"const", "volatile"}

NoCv == {}

PtrLayers == [k : {"ptr"}, cv : CvSets, n : {0}]

ArrLayers == [k : {"arr"}, cv : {NoCv}, n : 2..MaxArrLen]

UArrLayer == [k |-> "uarr", cv |-> NoCv, n |-> 0]

LRefLayer == [k |-> "lref", cv |-> NoCv, n |-> 0]

RRefLayer == [k |-> "rref", cv |-> NoCv, n |-> 0]

\* int, unsigned, bool, float: arithmetic; E: an unscoped enum; EC: an enum
\* class; S: trivial struct; V, V2: views deriving from
\* AdvancedClassWrapper<N>; W: a view deriving from plain ClassWrapper.
BaseNames == {"int", "unsigned", "bool", "float", "E", "EC", "S", "V", "V2", "W"}

ArithmeticNames == {"int", "unsigned", "bool", "float"}

EnumNames == {"E", "EC"}

SizedViews == {"V", "V2"}

UnsizedViews == {"W"}

ViewNames == SizedViews \cup UnsizedViews

\* kind "plain": the named type itself; kind "weak": WeakWrapper<argcv name>
Bases == [kind : {"plain"}, name : BaseNames, cv : CvSets, argcv : {NoCv}]

PlainBase(name, cv) == [kind |-> "plain", name |-> name, cv |-> cv, argcv |-> NoCv]

MkType(layers, base) == [layers |-> layers, base |-> base]

IsRef(l) == l.k \in {"lref", "rref"}

IsArray(l) == l.k \in {"arr", "uarr"}

\* Layer sequences C++ can spell: a reference is only ever the outermost
\* layer (no pointer to, array of, or reference to a reference), and the
\* element type of an array is complete (never an array of unknown bound).
WellFormedLayers(ls) ==
    /\ \A i \in 2..Len(ls) : ~IsRef(ls[i])
    /\ \A i \in 1..(Len(ls) - 1) : IsArray(ls[i]) => ls[i + 1].k # "uarr"

LayerSeqs ==
    { ls \in UNION { [1..d -> PtrLayers \cup ArrLayers \cup {UArrLayer, LRefLayer, RRefLayer}] : d \in 0..MaxDepth } :
        WellFormedLayers(ls) }

DeclaredTypes == { MkType(ls, b) : ls \in LayerSeqs, b \in Bases }

Inner(t) == MkType(Tail(t.layers), t.base)

\* Top-level cv-qualification of a type.  An array type is cv-qualified
\* exactly as its element type is ([basic.type.qualifier]); a reference
\* never is.
RECURSIVE TopCv(_)
TopCv(t) ==
    IF t.layers = << >> THEN t.base.cv
    ELSE LET l == Head(t.layers) IN
         CASE l.k = "ptr" -> l.cv
           [] IsRef(l)    -> NoCv
           [] OTHER       -> TopCv(Inner(t))

(***************************************************************************)
(* AnalyzeQualifiers: partial specializations of AnalyzeQualifiersImpl     *)
(* and the selection the compiler makes among them.                        *)
(***************************************************************************)
FinalSpecs == {"T", "const T", "volatile T", "const volatile T"}

PtrSpecs == {"T*", "T* const", "T* volatile", "T* const volatile"}

LayerSpecs == PtrSpecs \cup {"T&", "T&&", "T[]", "T[N]"}

\* cv-qualification written in a specialization's pattern
SpecCv(s) ==
    CASE s \in {"const T", "T* const"}                   -> {"const"}
      [] s \in {"volatile T", "T* volatile"}             -> {"volatile"}
      [] s \in {"const volatile T", "T* const volatile"} -> {"const", "volatile"}
      [] OTHER                                           -> NoCv

\* Does the pattern of specialization s match type t?  `cv T' matches every
\* type whose top-level qualification includes cv; a pointer pattern matches
\* a pointer with exactly the pattern's qualification.
SpecMatches(s, t) ==
    CASE s = "T"          -> TRUE
      [] s \in FinalSpecs -> SpecCv(s) # NoCv /\ SpecCv(s) \subseteq TopCv(t)
      [] s \in PtrSpecs   -> /\ t.layers # << >>
                             /\ Head(t.layers).k = "ptr"
                             /\ Head(t.layers).cv = SpecCv(s)
      [] s = "T&"         -> t.layers # << >> /\ Head(t.layers).k = "lref"
      [] s = "T&&"        -> t.layers # << >> /\ Head(t.layers).k = "rref"
      [] s = "T[]"        -> t.layers # << >> /\ Head(t.layers).k = "uarr"
      [] s = "T[N]"       -> t.layers # << >> /\ Head(t.layers).k = "arr"

\* Partial ordering of the specializations ([temp.class.order]): a is more
\* specialized than b.  An array pattern and a `cv T' pattern are unordered.
MoreSpecialized(a, b) ==
    \/ a # "T" /\ b = "T"
    \/ a = "const volatile T" /\ b \in {"const T", "volatile T"}
    \/ a \in PtrSpecs /\ b \in FinalSpecs /\ SpecCv(b) \subseteq SpecCv(a)

\* The specializations the compiler may select for t: the matching ones that
\* are more specialized than every other matching one.  Empty: the
\* instantiation is ambiguous and the program is ill-formed.
SelectedSpecs(t) ==
    LET m == { s \in FinalSpecs \cup LayerSpecs : SpecMatches(s, t) } IN
    { s \in m : \A o \in m \ {s} : MoreSpecialized(s, o) }

\* The holder layer `int spec' that a layer specialization pushes.
PushedLayer(s, t) ==
    CASE s \in PtrSpecs -> [k |-> "ptr", cv |-> SpecCv(s), n |-> 0]
      [] s = "T&"       -> LRefLayer
      [] s = "T&&"      -> RRefLayer
      [] s = "T[]"      -> UArrLayer
      [] s = "T[N]"     -> [k |-> "arr", cv |-> NoCv, n |-> Head(t.layers).n]

\* TypeStack::Push puts the new item in front; Top / Pop take it from there.
Push(stack, item) == <<item>> \o stack

Top(stack) == Head(stack)

Pop(stack) == Tail(stack)

(***************************************************************************)
(* CloneQualifier and ApplyQualifierStack.                                 *)
(***************************************************************************)
RemoveCv(b) == [b EXCEPT !.cv = NoCv]

\* CloneQualifier<DstT, SrcT> for a layer-less source: `cv DstT'
CloneQualifierBase(dst, src) == [dst EXCEPT !.cv = dst.cv \cup src.cv]

\* CloneQualifier<DstT, SrcT> for a holder type `int spec': `DstT spec'
CloneQualifierLayer(dst, layer) == MkType(<<layer>> \o dst.layers, dst.base)

\* First template argument ApplyQualifierStack hands to its Impl, for a
\* layer-less DstT: remove_const/remove_volatile of DstT's base type, then
\* the cv-qualifiers of BaseTypeT cloned onto it.
ApplyStart(dst, baseTypeT) == MkType(<< >>, CloneQualifierBase(RemoveCv(dst), baseTypeT))

(***************************************************************************)
(* RewriteWrappers helpers.                                                *)
(***************************************************************************)
\* a weak wrapper taken for a wrapper
IsWrapper_WeakToo(b) == b.name \in ViewNames

\* std::is_base_of<ClassWrapper, BaseTypeT> (cv-qualification is ignored)
IsWrapper(b) == b.kind = "plain" /\ b.name \in ViewNames

\* every wrapper taken for a sized one
HasIsAdvWrapper_AnyWrapper(b) == b.kind = "plain" /\ b.name \in ViewNames

\* BaseTypeT::IsAdvWrapper names a type: BaseTypeT derives from
\* AdvancedClassWrapper<objSizeT>
HasIsAdvWrapper(b) == b.kind = "plain" /\ b.name \in SizedViews

\* WeakWrapper<BaseTypeT>
WeakWrapperOf(b) == [kind |-> "weak", name |-> b.name, cv |-> NoCv, argcv |-> b.cv]

\* the reference kept
RemoveReference_Keep(t) == t

\* std::remove_reference_t<T>
RemoveReference(t) ==
    IF t.layers # << >> /\ IsRef(Head(t.layers)) THEN Inner(t) ELSE t

\* std::is_reference<T>
IsReference(t) == t.layers # << >> /\ IsRef(Head(t.layers))

(***************************************************************************)
(* Foreign memory, addresses and view instances.                           *)
(***************************************************************************)
\* width of a pointer (uintptr_t) in bits
PtrBits == 4

RECURSIVE Pow2(_)
Pow2(n) == IF n = 0 THEN 1 ELSE 2 * Pow2(n - 1)

\* number of addresses; uintptr_t arithmetic is modulo AddrSpace
AddrSpace == Pow2(PtrBits)

Addr == 0..(AddrSpace - 1)

\* sizeof(uintptr_t)
PtrSize == 4

\* nullptr
NullPtr == 0

\* the memory a run starts from: every address holds a different word
InitialMem == [a \in Addr |-> (5 * a + 3) % AddrSpace]

\* wrapA: the wrapper a field belongs to; other: a second wrapper of the same
\* class; global: Global::instance()
ViewInstances == {"wrapA", "other", "global", "module"}

\* no operation made through the declaration yet
NoOp == [op |-> "none", addr |-> -1, val |-> -1, reads |-> {}, fresh |-> FALSE]

(***************************************************************************)
(* PtrGetters: the functors a declaration resolves its address with.       *)
(***************************************************************************)
OffsGetter(offs) == [g |-> "offs", a |-> offs, b |-> 0]

AbsGetter(ptr) == [g |-> "abs", a |-> ptr, b |-> 0]

VfTableGetter(vftableIdx, vftableOffset) == [g |-> "vf", a |-> vftableIdx, b |-> vftableOffset]

\* an offset taken by its magnitude
ToUintptr_Magnitude(n) == IF n < 0 THEN (-n) % AddrSpace ELSE n % AddrSpace

\* conversion of a signed value (std::ptrdiff_t) to uintptr_t
ToUintptr(n) == n % AddrSpace

\* the table slot taken as a byte offset
CallGetter_SlotAsByteOffset(getter, rawBase, m) ==
    CASE getter.g = "offs" -> (rawBase + ToUintptr(getter.a)) % AddrSpace
      [] getter.g = "abs"  -> getter.a
      [] OTHER             -> m[(m[(rawBase + getter.b) % AddrSpace] + getter.a) % AddrSpace]

\* an absolute address taken relative to the parent
CallGetter_AbsFromBase(getter, rawBase, m) ==
    CASE getter.g = "offs" -> (rawBase + ToUintptr(getter.a)) % AddrSpace
      [] getter.g = "abs"  -> (rawBase + getter.a) % AddrSpace
      [] OTHER             -> m[(m[(rawBase + getter.b) % AddrSpace]
                                    + getter.a * PtrSize) % AddrSpace]

\* the table pointer always taken from the start of the object
CallGetter_PrimaryTable(getter, rawBase, m) ==
    CASE getter.g = "offs" -> (rawBase + ToUintptr(getter.a)) % AddrSpace
      [] getter.g = "abs"  -> getter.a
      [] OTHER             -> m[(m[rawBase] + getter.a * PtrSize) % AddrSpace]

\* operator () (void* raw) of the getter, run on memory m
CallGetter(getter, rawBase, m) ==
    CASE getter.g = "offs" -> (rawBase + ToUintptr(getter.a)) % AddrSpace
      [] getter.g = "abs"  -> getter.a
      [] OTHER             -> m[(m[(rawBase + getter.b) % AddrSpace]
                                    + getter.a * PtrSize) % AddrSpace]

\* the addresses operator () dereferences
GetterReads(getter, rawBase, m) ==
    IF getter.g = "vf"
    THEN { (rawBase + getter.b) % AddrSpace,
           (m[(rawBase + getter.b) % AddrSpace] + getter.a * PtrSize) % AddrSpace }
    ELSE {}

(***************************************************************************)
(* Declarations: Field, Function, VirtualFunction.                         *)
(***************************************************************************)
\* Field(ClassWrapper* parent, PtrGetter ptrGetter); dref is kDoExtraDref
Field(parent, ptrGetter, dref) ==
    [kind |-> "field", parent |-> parent, getter |-> ptrGetter, dref |-> dref]

\* Field(ClassWrapper* parent, std::ptrdiff_t offset)
FieldAtOffset(parent, offset, dref) == Field(parent, OffsGetter(offset), dref)

\* Function(uintptr_t absAddress): no parent
Function(absAddress) ==
    [kind |-> "function", parent |-> "null", getter |-> AbsGetter(absAddress), dref |-> FALSE]

\* VirtualFunction(parent, vftableIdx, vftableOffset = 0)
VirtualFunction(parent, vftableIdx, vftableOffset) ==
    [kind |-> "memberfn", parent |-> parent,
     getter |-> VfTableGetter(vftableIdx, vftableOffset), dref |-> FALSE]

(***************************************************************************)
(* State.                                                                  *)
(***************************************************************************)
VARIABLES
    mode,        \* "field": Field<declT> is instantiated; "rewrite":
                 \* RewriteWrappers<declT> alone; "roundtrip":
                 \* AnalyzeQualifiers, ApplyQualifierStack, AnalyzeQualifiers
    declT,       \* the declared type
    incomplete,  \* view classes that are incomplete where the field is declared
    newB,        \* roundtrip: the base type the stack is reapplied to
    pc,          \* position in the chain of template instantiations
    pass,        \* roundtrip: 1 = first analysis, 2 = analysis of the reapplied type
    cur,         \* AnalyzeQualifiersImpl: the type T still to be analyzed
    qstack,      \* AnalyzeQualifiersImpl: LayerStackT; ApplyQualifierStackImpl: QualifierStackT
    stk1,        \* roundtrip: QualifierStack of the first analysis
    baseT,       \* AnalyzeQualifiers<T>::BaseType
    acc,         \* ApplyQualifierStackImpl: DstT
    rewritten,   \* the resulting type (RewrittenT)
    doExtraDref, \* Field::kDoExtraDref
    category,    \* the FieldImpl specialization selected
    nInst,       \* number of template instantiations performed
    err          \* the diagnostic that ended the instantiation, or "none"

tvars == <<mode, declT, incomplete, newB, pc, pass, cur, qstack, stk1, baseT, acc,
           rewritten, doExtraDref, category, nInst, err>>

VARIABLES
    mem,         \* foreign memory: the word stored at each address
    raw,         \* ClassWrapper::m_raw of each view instance
    fld,         \* the field under test: FieldBase::m_parent and m_ptrGetter
    last,        \* the last operation made through fld and what it returned;
                 \* fresh: nothing else happened since
    pokes,       \* number of direct writes to foreign memory so far
    plain,       \* plain variables x and y run side by side with the fields x
                 \* and y, and the result res of the last operation on them
    members,     \* the Field members of each view instance, by name:
                 \* FieldBase::m_parent and m_ptrGetter of each
    call         \* the last call made into the foreign program

rvars == <<mem, raw, fld, last, pokes, plain, members, call>>

\* the variables of view objects and of calls
ovars == <<members, call>>

\* plain variables not in use
NoPlain == [x |-> 0, y |-> 0, res |-> -1]

\* view instances without Field members
NoMembers == [v \in ViewInstances |-> << >>]

\* no call made yet
NoCall == [fn |-> -1, thiz |-> -1, arg |-> << >>, ret |-> -1]

\* no member declared, no call made
IdleObjects == members = NoMembers /\ call = NoCall

VARIABLES
    opt,         \* the Optional objects: m_hasValue and the storage m_data of each
    ores,        \* the last operation on an Optional and what it returned
    inst,        \* the instance of an instantiable view: its class, how far its
                 \* life has got, and the routines called on it
    thr          \* the threads: what each has done and seen so far

\* the variables of instantiable views and of threads
ivars == <<inst, thr>>

xvars == <<opt, ores, inst, thr>>

vars == <<tvars, rvars, xvars>>

\* the Optional objects of a run
Opts == {"a", "b"}

\* storage that holds no constructed value
NoValue == 0 - 1

\* an Optional that is not constructed (yet, or any more): alive tells whether
\* the Optional object exists, constructed whether m_data holds a T whose
\* lifetime has begun and not ended, val that T's value
NoOptional == [alive |-> FALSE, hasValue |-> FALSE, constructed |-> FALSE, val |-> NoValue]

\* no operation on an Optional yet; fatal: fatalExit was called
NoResult == [op |-> "none", obj |-> "none", val |-> NoValue, fatal |-> FALSE, faults |-> {}]

\* no instantiable view constructed
NoInstance ==
    [pc |-> "none", class |-> "none", args |-> << >>, base |-> "none", size |-> 0,
     data |-> NoValue, ctor |-> << >>, dtor |-> 0, used |-> 0]

\* no thread running
NoThreads == << >>

\* no Optional in use
IdleOptional == opt = [o \in Opts |-> NoOptional] /\ ores = NoResult

\* no Optional in use, no view instantiated, no thread running
IdleExtras == IdleOptional /\ inst = NoInstance /\ thr = NoThreads


\* the run-time part at rest, in the specifications of the compile-time part
IdleRuntime ==
    /\ mem = InitialMem
    /\ raw = [v \in ViewInstances |-> NullPtr]
    /\ fld = Function(NullPtr)
    /\ last = NoOp
    /\ pokes = 0
    /\ plain = NoPlain
    /\ IdleObjects
    /\ IdleExtras

\* no type yet
NoBase == [kind |-> "none", name |-> "int", cv |-> NoCv, argcv |-> NoCv]

\* Where a field may be declared: at namespace scope with every view class
\* complete, inside the body of V or of W (the class itself is incomplete
\* there), or inside the body of V while V2 is only forward-declared.
Scopes == { {}, {"V"}, {"W"}, {"V", "V2"} }

NoType == MkType(<< >>, NoBase)

InitTypes(m, types, scopes, bases) ==
    /\ mode = m
    /\ declT \in types
    /\ incomplete \in scopes
    /\ newB \in bases
    /\ pc = "start"
    /\ pass = 1
    /\ cur = NoType
    /\ qstack = << >>
    /\ stk1 = << >>
    /\ baseT = NoBase
    /\ acc = NoType
    /\ rewritten = NoType
    /\ doExtraDref = FALSE
    /\ category = "none"
    /\ nInst = 0
    /\ err = "none"

Fail(msg) ==
    /\ pc' = "error"
    /\ err' = msg
    /\ nInst' = nInst + 1

(***************************************************************************)
(* Field<T>: the base class FieldImpl<RewriteWrappers<remove_reference_t<T>>>*)
(***************************************************************************)
FieldInstantiate ==
    /\ pc = "start"
    /\ mode = "field"
    /\ cur' = RemoveReference(declT)
    /\ doExtraDref' = IsReference(declT)
    /\ pc' = "analyze"
    /\ nInst' = nInst + 1
    /\ UNCHANGED <<mode, declT, incomplete, newB, pass, qstack, stk1, baseT, acc,
                   rewritten, category, err>>
    /\ UNCHANGED <<rvars, xvars>>

\* RewriteWrappers<T>, or AnalyzeQualifiers<T>, on the declared type as it is
RoundTripStart ==
    /\ pc = "start"
    /\ mode \in {"rewrite", "roundtrip"}
    /\ cur' = declT
    /\ pc' = "analyze"
    /\ UNCHANGED <<mode, declT, incomplete, newB, pass, qstack, stk1, baseT, acc,
                   rewritten, doExtraDref, category, nInst, err>>
    /\ UNCHANGED <<rvars, xvars>>

(***************************************************************************)
(* AnalyzeQualifiersImpl<T, LayerStackT>                                   *)
(***************************************************************************)
\* a layer specialization: push the layer, recurse into the inner type
AnalyzeLayer ==
    /\ pc = "analyze"
    /\ \E s \in SelectedSpecs(cur) \cap LayerSpecs :
          /\ qstack' = Push(qstack, PushedLayer(s, cur))
          /\ cur' = Inner(cur)
    /\ nInst' = nInst + 1
    /\ UNCHANGED <<mode, declT, incomplete, newB, pc, pass, stk1, baseT, acc,
                   rewritten, doExtraDref, category, err>>
    /\ UNCHANGED <<rvars, xvars>>

\* plain type (+ cv): AnalyzeQualifiersFinalImpl
AnalyzeFinal ==
    /\ pc = "analyze"
    /\ SelectedSpecs(cur) \cap FinalSpecs # {}
    /\ baseT' = cur.base
    /\ pc' = IF mode \in {"field", "rewrite"} THEN "step2"
             ELSE IF pass = 1 THEN "reapply" ELSE "done"
    /\ nInst' = nInst + 1
    /\ UNCHANGED <<mode, declT, incomplete, newB, pass, cur, qstack, stk1, acc,
                   rewritten, doExtraDref, category, err>>
    /\ UNCHANGED <<rvars, xvars>>

\* no specialization is more specialized than all other matching ones
AnalyzeAmbiguous ==
    /\ pc = "analyze"
    /\ SelectedSpecs(cur) = {}
    /\ Fail("ambiguous template instantiation")
    /\ UNCHANGED <<mode, declT, incomplete, newB, pass, cur, qstack, stk1, baseT, acc,
                   rewritten, doExtraDref, category>>
    /\ UNCHANGED <<rvars, xvars>>

(***************************************************************************)
(* RewriteWrappersStep2 / RewriteWrappersStep3                             *)
(***************************************************************************)
IsIncomplete(b) == b.kind = "plain" /\ b.name \in incomplete

\* std::is_base_of needs a complete class type
RewriteStep2Incomplete ==
    /\ pc = "step2"
    /\ IsIncomplete(baseT)
    /\ Fail("invalid use of incomplete type")
    /\ UNCHANGED <<mode, declT, incomplete, newB, pass, cur, qstack, stk1, baseT, acc,
                   rewritten, doExtraDref, category>>
    /\ UNCHANGED <<rvars, xvars>>

\* Step 2, non-wrapper types: just reassemble the type
RewriteStep2Plain ==
    /\ pc = "step2"
    /\ ~IsIncomplete(baseT)
    /\ ~IsWrapper(baseT)
    /\ acc' = ApplyStart(baseT, baseT)
    /\ pc' = "apply"
    /\ nInst' = nInst + 1
    /\ UNCHANGED <<mode, declT, incomplete, newB, pass, cur, qstack, stk1, baseT,
                   rewritten, doExtraDref, category, err>>
    /\ UNCHANGED <<rvars, xvars>>

\* Step 3, advanced wrapper types: rewrite with WeakWrapper
RewriteStep3Weak ==
    /\ pc = "step2"
    /\ ~IsIncomplete(baseT)
    /\ IsWrapper(baseT)
    /\ HasIsAdvWrapper(baseT)
    /\ acc' = ApplyStart(WeakWrapperOf(baseT), baseT)
    /\ pc' = "apply"
    /\ nInst' = nInst + 2
    /\ UNCHANGED <<mode, declT, incomplete, newB, pass, cur, qstack, stk1, baseT,
                   rewritten, doExtraDref, category, err>>
    /\ UNCHANGED <<rvars, xvars>>

\* Step 3, simple wrapper types: static_assert
RewriteStep3Reject ==
    /\ pc = "step2"
    /\ ~IsIncomplete(baseT)
    /\ IsWrapper(baseT)
    /\ ~HasIsAdvWrapper(baseT)
    /\ pc' = "error"
    /\ err' = "using wrapped types in fields requires usage of AdvancedClassWrapper as base"
    /\ nInst' = nInst + 2
    /\ UNCHANGED <<mode, declT, incomplete, newB, pass, cur, qstack, stk1, baseT, acc,
                   rewritten, doExtraDref, category>>
    /\ UNCHANGED <<rvars, xvars>>

\* roundtrip: ApplyQualifierStack<newB, newB, QualifierStack>
ReapplyStart ==
    /\ pc = "reapply"
    /\ stk1' = qstack
    /\ acc' = ApplyStart(newB, newB)
    /\ pc' = "apply"
    /\ UNCHANGED <<mode, declT, incomplete, newB, pass, cur, qstack, baseT,
                   rewritten, doExtraDref, category, nInst, err>>
    /\ UNCHANGED <<rvars, xvars>>

(***************************************************************************)
(* ApplyQualifierStackImpl<DstT, QualifierStackT>                          *)
(***************************************************************************)
\* elements left to process
ApplyStep ==
    /\ pc = "apply"
    /\ qstack # << >>
    /\ acc' = CloneQualifierLayer(acc, Top(qstack))
    /\ qstack' = Pop(qstack)
    /\ nInst' = nInst + 1
    /\ UNCHANGED <<mode, declT, incomplete, newB, pc, pass, cur, stk1, baseT,
                   rewritten, doExtraDref, category, err>>
    /\ UNCHANGED <<rvars, xvars>>

\* exhausted stack: Type = DstT
ApplyDone ==
    /\ pc = "apply"
    /\ qstack = << >>
    /\ rewritten' = acc
    /\ IF mode = "roundtrip"
       THEN pc' = "analyze" /\ cur' = acc /\ pass' = 2
       ELSE /\ pc' = IF mode = "field" THEN "dispatch" ELSE "done"
            /\ UNCHANGED <<cur, pass>>
    /\ nInst' = nInst + 1
    /\ UNCHANGED <<mode, declT, incomplete, newB, qstack, stk1, baseT, acc,
                   doExtraDref, category, err>>
    /\ UNCHANGED <<rvars, xvars>>

(***************************************************************************)
(* Object sizes.                                                           *)
(***************************************************************************)
\* objSizeT of the AdvancedClassWrapper<objSizeT> a sized view derives from
kObjSize(name) == IF name = "V" THEN 12 ELSE 3

\* sizeof(int)
IntSize == 4

\* sizeof(S), a trivial struct { float; int; unsigned char; }
StructSize == 12

\* a weak wrapper that kept a parent pointer beside its bytes
SizeOfWeak_WithParent(b) == kObjSize(b.name) + PtrSize

\* sizeof(WeakWrapper<V>): uint8_t m_dummy[kObjSize] under #pragma pack(1)
SizeOfWeak(b) == kObjSize(b.name)

\* sizeof of a base type; an enum has the size of int, and a strong view
\* holds its vtable pointer and m_raw
SizeOfBase(b) ==
    CASE b.kind = "weak"  -> SizeOfWeak(b)
      [] b.name = "bool"  -> 1
      [] b.name \in (ArithmeticNames \cup EnumNames) -> IntSize
      [] b.name = "S"     -> StructSize
      [] OTHER            -> 2 * PtrSize

\* sizeof(T); sizeof of a reference is that of the referenced type, and an
\* array of unknown bound has no size (0 here)
RECURSIVE SizeOf(_)
SizeOf(t) ==
    IF t.layers = << >> THEN SizeOfBase(t.base)
    ELSE LET l == Head(t.layers) IN
         CASE l.k = "ptr"  -> PtrSize
           [] l.k = "arr"  -> l.n * SizeOf(Inner(t))
           [] l.k = "uarr" -> 0
           [] OTHER        -> SizeOf(Inner(t))

(***************************************************************************)
(* FieldImpl<T>: the specialization selected for the rewritten type.       *)
(***************************************************************************)
\* std::is_arithmetic<T> (cv-qualification is ignored)
IsArithmetic(b) == b.kind = "plain" /\ b.name \in ArithmeticNames

\* std::is_enum<T>
IsEnum(b) == b.kind = "plain" /\ b.name \in EnumNames

\* every enumeration taken to convert to int
IsConvertibleToInt_AnyEnum(b) == b.kind = "plain" /\ b.name \in (ArithmeticNames \cup EnumNames)

\* std::is_convertible<T, int>: arithmetic types and unscoped enums convert
\* implicitly, enum classes and class types do not
IsConvertibleToInt(b) == b.kind = "plain" /\ b.name \in (ArithmeticNames \cup {"E"})

\* The category of the selected specialization, or "reject: ..." when the
\* selected specialization fails a static_assert.
FieldImplSelect(t) ==
    IF t.layers # << >> THEN
        LET l == Head(t.layers) IN
        CASE l.k = "uarr" -> "reject: unknown size array struct fields are not permitted"
          [] l.k = "arr"  -> IF Len(t.layers) = 1 /\ IsWrapper(t.base)
                             THEN "reject: internal library error"
                             ELSE "array"
          [] l.k = "ptr"  -> "pointer"
          [] l.k = "rref" -> "reject: rvalue-reference-fields are not supported"
          [] OTHER        -> "reject: this types is not supported for wrapping"
    ELSE
        CASE IsArithmetic(t.base) \/ (IsEnum(t.base) /\ IsConvertibleToInt(t.base))
                               -> "numeric"
          [] IsEnum(t.base) /\ ~IsConvertibleToInt(t.base)
                               -> "enum class"
          [] IsWrapper(t.base) -> "reject: internal library error"
          [] OTHER             -> "class"

IsReject(c) == c \notin {"numeric", "array", "pointer", "class", "enum class"}

DispatchSelect ==
    /\ pc = "dispatch"
    /\ ~IsReject(FieldImplSelect(rewritten))
    /\ category' = FieldImplSelect(rewritten)
    /\ pc' = "done"
    /\ nInst' = nInst + 1
    /\ UNCHANGED <<mode, declT, incomplete, newB, pass, cur, qstack, stk1, baseT, acc,
                   rewritten, doExtraDref, err>>
    /\ UNCHANGED <<rvars, xvars>>

DispatchReject ==
    /\ pc = "dispatch"
    /\ IsReject(FieldImplSelect(rewritten))
    /\ Fail(FieldImplSelect(rewritten))
    /\ UNCHANGED <<mode, declT, incomplete, newB, pass, cur, qstack, stk1, baseT, acc,
                   rewritten, doExtraDref, category>>
    /\ UNCHANGED <<rvars, xvars>>

(***************************************************************************)
(* Specifications of the compile-time part.                                *)
(***************************************************************************)
InitField == InitTypes("field", DeclaredTypes, Scopes, {NoBase}) /\ IdleRuntime

NextField ==
    \/ FieldInstantiate
    \/ AnalyzeLayer
    \/ AnalyzeFinal
    \/ AnalyzeAmbiguous
    \/ RewriteStep2Incomplete
    \/ RewriteStep2Plain
    \/ RewriteStep3Weak
    \/ RewriteStep3Reject
    \/ ApplyStep
    \/ ApplyDone
    \/ DispatchSelect
    \/ DispatchReject

SpecField == InitField /\ [][NextField]_vars

InitRewrite == InitTypes("rewrite", DeclaredTypes, Scopes, {NoBase}) /\ IdleRuntime

NextRewrite ==
    \/ RoundTripStart
    \/ AnalyzeLayer
    \/ AnalyzeFinal
    \/ AnalyzeAmbiguous
    \/ RewriteStep2Incomplete
    \/ RewriteStep2Plain
    \/ RewriteStep3Weak
    \/ RewriteStep3Reject
    \/ ApplyStep
    \/ ApplyDone

SpecRewrite == InitRewrite /\ [][NextRewrite]_vars

\* Round trip: T is analyzed, its stack is reapplied to a base type B of any
\* qualification, and the result is analyzed again.
InitRoundTrip ==
    /\ InitTypes("roundtrip", { t \in DeclaredTypes : t.base.name = "int" }, {{}},
                 { b \in Bases : b.name \in {"int", "V"} })
    /\ IdleRuntime

NextRoundTrip ==
    \/ RoundTripStart
    \/ AnalyzeLayer
    \/ AnalyzeFinal
    \/ AnalyzeAmbiguous
    \/ ReapplyStart
    \/ ApplyStep
    \/ ApplyDone

SpecRoundTrip == InitRoundTrip /\ [][NextRoundTrip]_vars


(***************************************************************************)
(* Properties of the compile-time part.                                    *)
(***************************************************************************)
Terminal == pc \in {"done", "error"}

PtrTo(b) == MkType(<<[k |-> "ptr", cv |-> NoCv, n |-> 0]>>, b)

\* C1: AnalyzeQualifiers and ApplyQualifierStack are mutual inverses at any
\* depth: analyzing the type obtained by reapplying a stack S (taken from an
\* analysis) to a base type B of any qualification ends with base type B and
\* stack S, and reapplying a type's own stack to its own base type gives the
\* type back.
C1_RoundTripInverse ==
    (mode = "roundtrip" /\ pass = 2 /\ Terminal) =>
        /\ pc = "done"
        /\ baseT = newB
        /\ qstack = stk1
        /\ (newB = declT.base => rewritten = declT)

\* C2: RewriteWrappers changes only the base type: with every class complete,
\* each declared type whose base is not a view is rewritten to itself, and
\* each declared type whose base is a sized view V is rewritten to the same
\* layers over WeakWrapper<V> carrying the qualification of the base.
C2_RewriteChangesOnlyBase ==
    (mode = "rewrite" /\ Terminal /\ incomplete = {}
        /\ declT.base.name \notin UnsizedViews) =>
        /\ pc = "done"
        /\ rewritten.layers = declT.layers
        /\ (declT.base.name \notin ViewNames => rewritten = declT)
        /\ (declT.base.name \in SizedViews =>
                /\ rewritten.base.kind = "weak"
                /\ rewritten.base.name = declT.base.name
                /\ rewritten.base.cv = declT.base.cv)

\* the footprint a declared type has when every object of the view type V
\* is replaced by kObjSize(V) inline bytes
RECURSIVE InlineFootprint(_)
InlineFootprint(t) ==
    IF t.layers = << >> THEN kObjSize(t.base.name)
    ELSE LET l == Head(t.layers) IN
         IF l.k = "ptr" THEN PtrSize
         ELSE IF l.k = "arr" THEN l.n * InlineFootprint(Inner(t))
         ELSE InlineFootprint(Inner(t))

\* C3: the type a field of a sized view V wraps has the footprint of
\* kObjSize(V) inline bytes: WeakWrapper<V> itself is kObjSize(V) bytes, a
\* K-element array of V is K * kObjSize(V) bytes, at any nesting.
C3_WeakFootprint ==
    (mode = "field" /\ pc = "done" /\ declT.base.name \in SizedViews) =>
        /\ SizeOf(rewritten) = InlineFootprint(RemoveReference(declT))
        /\ (rewritten.layers = << >> =>
                SizeOf(rewritten) = kObjSize(declT.base.name))
        /\ (Len(rewritten.layers) = 1 /\ Head(rewritten.layers).k = "arr" =>
                SizeOf(rewritten) = Head(rewritten.layers).n * kObjSize(declT.base.name))

C3_Witness ==
    /\ mode = "field"
    /\ pc = "done"
    /\ declT = MkType(<<[k |-> "arr", cv |-> NoCv, n |-> 2]>>, PlainBase("V2", NoCv))
    /\ rewritten.base.kind = "weak"
    /\ SizeOf(rewritten) = 6

\* C4: a field whose base type is a view without a declared size is never
\* instantiated, whatever layers are around the view type: no rewritten type
\* and no FieldImpl are produced, and the foreign memory is untouched.
C4_UnsizedViewRejected ==
    (mode = "field" /\ declT.base.name \in UnsizedViews) =>
        /\ pc \notin {"apply", "dispatch", "done"}
        /\ rewritten = NoType
        /\ category = "none"
        /\ mem = InitialMem

C4_Witness ==
    /\ mode = "field"
    /\ declT.base.name \in UnsizedViews
    /\ Len(declT.layers) >= 2
    /\ incomplete = {}
    /\ pc = "error"
    /\ err = "using wrapped types in fields requires usage of AdvancedClassWrapper as base"

\* C5: rewriting ends within a number of instantiations linear in the depth of
\* the declared type, and a view V whose member is declared as pointer to V
\* (inside the body of V), or as pointer to a view V2 that is only
\* forward-declared there, gets the type pointer to WeakWrapper.
C5_SelfReferenceRewritten ==
    (mode = "rewrite" /\ Terminal) =>
        /\ nInst <= 2 * Len(declT.layers) + 4
        /\ (declT.base.name \in SizedViews /\ declT.base.cv = NoCv
                /\ declT.layers = PtrTo(declT.base).layers
                /\ declT.base.name \in incomplete =>
                    /\ pc = "done"
                    /\ rewritten = PtrTo(WeakWrapperOf(declT.base)))

(***************************************************************************)
(* The run-time part: resolving and accessing through a declaration.       *)
(***************************************************************************)
\* most direct writes to foreign memory in one run
MaxPokes == 1

\* largest index of a virtual function table slot
MaxVfIdx == 2

\* the values of std::ptrdiff_t
Offsets == (0 - AddrSpace \div 2)..(AddrSpace \div 2 - 1)

\* values stored by the writes made through a field
WriteVals == {1, AddrSpace - 2}

\* values stored by the direct writes to the memory
PokeVals == {AddrSpace - 1}

\* the compile-time part at rest, in the specifications of the run-time part
IdleTypes == InitTypes("runtime", {NoType}, {{}}, {NoBase})

\* m_parent ? m_parent->m_raw : nullptr
ParentRaw(f) == IF f.parent # "null" THEN raw[f.parent] ELSE NullPtr

\* the getter run without the parent's base address
rawPtr_NoParent(f) == CallGetter(f.getter, NullPtr, mem)

\* FieldBase::rawPtr / crawPtr
rawPtr(f) == CallGetter(f.getter, ParentRaw(f), mem)

\* the slot itself, without the extra dereference
valueRef_NoDref(f) == rawPtr(f)

\* an address kept from the access before
valueRef_Cached(f) ==
    IF last.addr \in Addr THEN last.addr
    ELSE IF f.dref THEN mem[rawPtr(f)] ELSE rawPtr(f)

\* Field::valueRef / valueCRef: the address of the wrapped object
valueRef(f) == IF f.dref THEN mem[rawPtr(f)] ELSE rawPtr(f)

\* a getter that keeps the address it resolved and yields it from then on
CallRawPtr_Memoize ==
    /\ last' = [op |-> "resolve", addr |-> rawPtr(fld), val |-> -1,
                reads |-> GetterReads(fld.getter, ParentRaw(fld), mem), fresh |-> TRUE]
    /\ fld' = [fld EXCEPT !.getter = AbsGetter(rawPtr(fld))]
    /\ UNCHANGED <<mem, raw, pokes, plain>>
    /\ UNCHANGED <<tvars, ovars, xvars>>

\* FunctionImpl::get, MemberFunctionImpl::get: the address rawPtr() yields
CallRawPtr ==
    /\ last' = [op |-> "resolve", addr |-> rawPtr(fld), val |-> -1,
                reads |-> GetterReads(fld.getter, ParentRaw(fld), mem), fresh |-> TRUE]
    /\ UNCHANGED <<mem, raw, fld, pokes, plain>>
    /\ UNCHANGED <<tvars, ovars, xvars>>

\* the foreign program (or the test) writes its own memory
Poke(a, v) ==
    /\ pokes < MaxPokes
    /\ mem' = [mem EXCEPT ![a] = v]
    /\ pokes' = pokes + 1
    /\ last' = [last EXCEPT !.fresh = FALSE]
    /\ UNCHANGED <<raw, fld, plain>>
    /\ UNCHANGED <<tvars, ovars, xvars>>

\* ClassWrapper::operator =: dst = src copies m_raw
Assign(dst, src) ==
    /\ raw' = [raw EXCEPT ![dst] = raw[src]]
    /\ last' = [last EXCEPT !.fresh = FALSE]
    /\ UNCHANGED <<mem, fld, pokes, plain>>
    /\ UNCHANGED <<tvars, ovars, xvars>>

\* operator const RewrittenT& (): read the wrapped object
FieldRead ==
    /\ fld.kind = "field"
    /\ last' = [op |-> "read", addr |-> valueRef(fld), val |-> mem[valueRef(fld)],
                reads |-> GetterReads(fld.getter, ParentRaw(fld), mem), fresh |-> TRUE]
    /\ UNCHANGED <<mem, raw, fld, pokes, plain>>
    /\ UNCHANGED <<tvars, ovars, xvars>>

\* operator = (const RewrittenT& rhs): valueRef() = rhs
FieldWrite(v) ==
    /\ fld.kind = "field"
    /\ mem' = [mem EXCEPT ![valueRef(fld)] = v]
    /\ last' = [op |-> "write", addr |-> valueRef(fld), val |-> v,
                reads |-> GetterReads(fld.getter, ParentRaw(fld), mem), fresh |-> TRUE]
    /\ UNCHANGED <<raw, fld, pokes, plain>>
    /\ UNCHANGED <<tvars, ovars, xvars>>

\* Resolving: an offset field, an absolute field or a virtual function of
\* wrapA, at every base
ResolveDecls ==
    { FieldAtOffset("wrapA", n, FALSE) : n \in Offsets }
        \cup { Field("wrapA", AbsGetter(q), FALSE) : q \in Addr }
        \cup { VirtualFunction("wrapA", i, off) : i \in 0..MaxVfIdx, off \in {0, PtrSize} }

InitResolve ==
    /\ IdleTypes
    /\ IdleObjects
    /\ mem = InitialMem
    /\ raw \in { [v \in ViewInstances |-> IF v = "wrapA" THEN b ELSE NullPtr] : b \in Addr }
    /\ fld \in ResolveDecls
    /\ last = NoOp
    /\ pokes = 0
    /\ plain = NoPlain
    /\ IdleExtras

NextResolve ==
    \/ CallRawPtr
    \/ \E a \in Addr, v \in PokeVals : Poke(a, v)

SpecResolve == InitResolve /\ [][NextResolve]_vars


\* C7: an offset resolver yields base + n modulo the pointer width for every
\* base address and every signed offset n (base - |n| for a negative n, with
\* wrap-around), reads no foreign memory, and its result does not depend on
\* what the memory holds.
C7_OffsetResolve ==
    (last.op = "resolve" /\ fld.getter.g = "offs") =>
        LET base == raw[fld.parent]
            n    == fld.getter.a
        IN /\ last.addr \in Addr
           /\ (last.addr - (base + n)) % AddrSpace = 0
           /\ (n >= 0 /\ base + n < AddrSpace => last.addr = base + n)
           /\ (n < 0 /\ base >= 0 - n => last.addr = base - (0 - n))
           /\ (n < 0 /\ base < 0 - n => last.addr = AddrSpace + base - (0 - n))
           /\ last.reads = {}
           /\ \A a \in Addr :
                 CallGetter(fld.getter, base,
                            [mem EXCEPT ![a] = (mem[a] + 1) % AddrSpace]) = last.addr

C7_Witness ==
    /\ last.op = "resolve"
    /\ fld.getter.g = "offs"
    /\ fld.getter.a = 0 - 3
    /\ raw["wrapA"] = 1
    /\ last.addr = AddrSpace - 2
    /\ pokes = MaxPokes

\* C8: a virtual-table resolver yields the word stored in slot i of the table
\* whose address is stored at base + off: mem[mem[base + off] + i * PtrSize],
\* for every slot index i and every offset off, off = 0 by default.
C8_VirtualTableResolve ==
    (last.fresh /\ last.op = "resolve" /\ fld.getter.g = "vf") =>
        LET base      == raw[fld.parent]
            i         == fld.getter.a
            off       == fld.getter.b
            vtablePtr == mem[(base + off) % AddrSpace]
        IN /\ last.addr = mem[(vtablePtr + i * PtrSize) % AddrSpace]
           /\ (off = 0 => last.addr = mem[(mem[base] + i * PtrSize) % AddrSpace])
           /\ last.reads = {(base + off) % AddrSpace, (vtablePtr + i * PtrSize) % AddrSpace}

C8_Witness ==
    /\ last.fresh
    /\ last.op = "resolve"
    /\ fld = VirtualFunction("wrapA", MaxVfIdx, PtrSize)
    /\ pokes = MaxPokes
    /\ last.addr # CallGetter(fld.getter, raw["wrapA"], InitialMem)

\* C26 as stated: each of the Offset, Absolute and VirtualTable resolvers is
\* a pure function of the base address: two invocations with the same base
\* address yield the same target whatever was written to the foreign memory
\* in between, and an invocation changes neither the resolver nor the memory.
C26_ResolversPure ==
    [][ (last.op = "resolve" /\ last'.op = "resolve" /\ last'.fresh /\ raw' = raw)
        => (last'.addr = last.addr /\ fld' = fld /\ mem' = mem) ]_vars

\* C26: the Offset and the Absolute resolver are pure functions of the base
\* address: two invocations with the same base address yield the same target
\* whatever was written to the foreign memory in between. The VirtualTable
\* resolver is a function of the base address and of the two foreign words it
\* reads, the table pointer at base + off and slot i of that table: as long
\* as those two words are as they were, it yields the target it yielded
\* before any write. No invocation changes the resolver or the memory.
C26_ResolversPureButTable ==
    [][ (last'.op = "resolve" /\ last'.fresh) =>
          /\ fld' = fld /\ mem' = mem /\ raw' = raw
          /\ (fld.getter.g # "vf" /\ last.op = "resolve") => last'.addr = last.addr
          /\ (fld.getter.g # "vf") => last'.reads = {}
          /\ (fld.getter.g = "vf" /\ \A a \in last'.reads : mem[a] = InitialMem[a])
                => last'.addr = CallGetter(fld.getter, raw[fld.parent], InitialMem) ]_vars

C26_Witness ==
    /\ last.op = "resolve"
    /\ last.fresh
    /\ fld = VirtualFunction("wrapA", 1, PtrSize)
    /\ pokes = MaxPokes
    /\ mem # InitialMem
    /\ \A a \in last.reads : mem[a] = InitialMem[a]
    /\ last.addr = CallGetter(fld.getter, raw["wrapA"], InitialMem)

BaseAddrs == {2, AddrSpace - 7}

AccessDecls ==
    { FieldAtOffset("wrapA", n, d) : n \in {0 - 1, 0, 2}, d \in BOOLEAN }
        \cup { FieldAtOffset("global", a, FALSE) : a \in Offsets }
        \cup { Field(p, AbsGetter(q), FALSE) : p \in {"wrapA", "global"}, q \in Addr }
        \cup { Function(q) : q \in Addr }

\* The variables the foreign program writes directly: those the declaration
\* denotes under one of the bindings, and for a reference field the referents.
AccessTargets ==
    LET slots == { CallGetter(fld.getter, b, mem) : b \in BaseAddrs \cup {NullPtr} }
    IN slots \cup (IF fld.dref THEN { mem[a] : a \in slots } ELSE {})

InitAccess ==
    /\ IdleTypes
    /\ IdleObjects
    /\ mem = InitialMem
    /\ \E b1 \in BaseAddrs : \E b2 \in BaseAddrs \ {b1} :
          raw = [v \in ViewInstances |->
                    IF v = "wrapA" THEN b1 ELSE IF v = "other" THEN b2 ELSE NullPtr]
    /\ fld \in AccessDecls
    /\ last = NoOp
    /\ pokes = 0
    /\ plain = NoPlain
    /\ IdleExtras

NextAccess ==
    \/ CallRawPtr
    \/ FieldRead
    \/ \E v \in WriteVals : FieldWrite(v)
    \/ \E a \in AccessTargets, v \in PokeVals : Poke(a, v)
    \/ \E dst \in {"wrapA", "other"} : \E src \in {"wrapA", "other"} \ {dst} : Assign(dst, src)

SpecAccess == InitAccess /\ [][NextAccess]_vars

\* what an access made in this step at location loc must do
AccessAt(loc) ==
    /\ last'.addr = loc
    /\ raw' = raw
    /\ (last'.op = "read" => last'.val = mem[loc] /\ mem' = mem)
    /\ (last'.op = "write" => mem' = [mem EXCEPT ![loc] = last'.val])
    /\ (last'.op = "resolve" => mem' = mem)

\* C6: no address is cached: however rebinding of the parent (view
\* assignment), direct writes to the memory and accesses through a field of
\* the parent interleave, each access through the field reads or writes the
\* location base + n of the parent's base address at that moment and
\* observes the memory as it is at that moment.
C6_NoAddressCached ==
    [][ (last'.fresh /\ fld.kind = "field" /\ fld.parent = "wrapA"
            /\ fld.getter.g = "offs" /\ ~fld.dref)
        => AccessAt((raw["wrapA"] + fld.getter.a) % AddrSpace) ]_vars

C6_Witness ==
    /\ last.fresh
    /\ last.op = "read"
    /\ fld = FieldAtOffset("wrapA", 2, FALSE)
    /\ raw["wrapA"] = raw["other"]
    /\ pokes = MaxPokes
    /\ last.addr = (raw["other"] + 2) % AddrSpace
    /\ last.val # InitialMem[last.addr]

\* C9: an absolute resolver yields its address p whatever the parent is,
\* also without a parent (a Function), and a field of the Global root with
\* offset a is the variable at address a: reads and writes through it hit
\* exactly that address.
C9_AbsoluteAndGlobal ==
    [][ last'.fresh =>
          /\ (fld.getter.g = "abs" => AccessAt(fld.getter.a))
          /\ (fld.parent = "global" /\ fld.getter.g = "offs" =>
                 AccessAt(fld.getter.a % AddrSpace)) ]_vars

C9_Witness ==
    /\ last.fresh
    /\ last.op = "write"
    /\ fld = FieldAtOffset("global", 0 - 3, FALSE)
    /\ last.addr = AddrSpace - 3
    /\ mem[AddrSpace - 3] = last.val
    /\ pokes = MaxPokes


(***************************************************************************)
(* Numeric fields: the operator forwarders, run side by side with plain    *)
(* variables.  The fields x and y wrap two unsigned integers of NumBits    *)
(* bits, members of the object wrapA is bound to.                          *)
(***************************************************************************)
\* width in bits of the wrapped unsigned type
NumBits == 3

NumSpace == Pow2(NumBits)

NumVals == 0..(NumSpace - 1)

\* literals used as operands
Literals == {0, 1, 3}

NumFields == {"x", "y"}

\* Field<T> x{this, offsetof(A, x)}, y{this, offsetof(A, y)}
NumField(name) == FieldAtOffset("wrapA", IF name = "x" THEN 0 ELSE PtrSize, FALSE)

BinaryOps == {"+", "-", "*", "/", "%", "|", "&", "^", "<<", ">>",
              "==", "!=", ">", "<", ">=", "<=", "&&", "||"}

CompoundOps == {"+", "-", "*", "/", "%", "|", "&", "^", "<<", ">>"}

UnaryOps == {"+", "-", "~", "!"}

\* a, b combined bit by bit over n bits
RECURSIVE Bitwise(_, _, _, _)
Bitwise(op, a, b, n) ==
    IF n = 0 THEN 0
    ELSE LET x == a % 2
             y == b % 2
             bit == CASE op = "|" -> IF x + y > 0 THEN 1 ELSE 0
                      [] op = "&" -> x * y
                      [] OTHER    -> (x + y) % 2
         IN bit + 2 * Bitwise(op, a \div 2, b \div 2, n - 1)

ToInt(c) == IF c THEN 1 ELSE 0

\* is the built-in `a op b' defined (no division by zero, no shift by the
\* width or more)?
Defined(op, a, b) ==
    /\ (op \in {"/", "%"} => b # 0)
    /\ (op \in {"<<", ">>"} => b < NumBits)

\* the built-in operator on two unsigned values of NumBits bits
ApplyOp(op, a, b) ==
    CASE op = "+"  -> (a + b) % NumSpace
      [] op = "-"  -> (a - b) % NumSpace
      [] op = "*"  -> (a * b) % NumSpace
      [] op = "/"  -> IF b = 0 THEN 0 ELSE a \div b
      [] op = "%"  -> IF b = 0 THEN 0 ELSE a % b
      [] op \in {"|", "&", "^"} -> Bitwise(op, a, b, NumBits)
      [] op = "<<" -> (a * Pow2(b)) % NumSpace
      [] op = ">>" -> a \div Pow2(b)
      [] op = "==" -> ToInt(a = b)
      [] op = "!=" -> ToInt(a # b)
      [] op = ">"  -> ToInt(a > b)
      [] op = "<"  -> ToInt(a < b)
      [] op = ">=" -> ToInt(a >= b)
      [] op = "<=" -> ToInt(a <= b)
      [] op = "&&" -> ToInt(a # 0 /\ b # 0)
      [] OTHER     -> ToInt(a # 0 \/ b # 0)

\* the built-in unary operator
ApplyUnary(op, a) ==
    CASE op = "+" -> a
      [] op = "-" -> (0 - a) % NumSpace
      [] op = "~" -> NumSpace - 1 - a
      [] OTHER    -> ToInt(a = 0)

\* the wrapper's own address taken for the wrapped value
FieldValue_Address(f) == valueRef(f) % NumSpace

\* the value of the wrapped object: *valueCRef()
FieldValue(f) == mem[valueRef(f)]

\* right-hand operands: a literal, or one of the fields
Operands ==
    { [lit |-> TRUE, c |-> c, g |-> "x"] : c \in Literals }
        \cup { [lit |-> FALSE, c |-> 0, g |-> g] : g \in NumFields }

\* a field as operand is converted by operator const RewrittenT& ()
OperandValue(o) == IF o.lit THEN o.c ELSE FieldValue(NumField(o.g))

PlainOperandValue(o) == IF o.lit THEN o.c ELSE plain[o.g]

NumResult(class, f, v) ==
    [op |-> class, addr |-> valueRef(NumField(f)), val |-> v, reads |-> {}, fresh |-> TRUE]

\* field op rhs: return this->valueCRef() op rhs
BinaryRvalue(op, f, o) ==
    /\ Defined(op, FieldValue(NumField(f)), OperandValue(o))
    /\ Defined(op, plain[f], PlainOperandValue(o))
    /\ last' = NumResult("rvalue", f, ApplyOp(op, FieldValue(NumField(f)), OperandValue(o)))
    /\ plain' = [plain EXCEPT !.res = ApplyOp(op, plain[f], PlainOperandValue(o))]
    /\ UNCHANGED <<mem, raw, fld, pokes>>
    /\ UNCHANGED <<tvars, ovars, xvars>>

\* literal op field: the built-in operator on the converted field
LiteralOpField(op, c, f) ==
    /\ Defined(op, c, FieldValue(NumField(f)))
    /\ Defined(op, c, plain[f])
    /\ last' = NumResult("rvalue", f, ApplyOp(op, c, FieldValue(NumField(f))))
    /\ plain' = [plain EXCEPT !.res = ApplyOp(op, c, plain[f])]
    /\ UNCHANGED <<mem, raw, fld, pokes>>
    /\ UNCHANGED <<tvars, ovars, xvars>>

\* field op= rhs: return this->valueRef() op= rhs
CompoundAssignment(op, f, o) ==
    /\ Defined(op, FieldValue(NumField(f)), OperandValue(o))
    /\ Defined(op, plain[f], PlainOperandValue(o))
    /\ LET new == ApplyOp(op, FieldValue(NumField(f)), OperandValue(o))
           pnew == ApplyOp(op, plain[f], PlainOperandValue(o))
       IN /\ mem' = [mem EXCEPT ![valueRef(NumField(f))] = new]
          /\ last' = NumResult("compound", f, new)
          /\ plain' = [plain EXCEPT ![f] = pnew, !.res = pnew]
    /\ UNCHANGED <<raw, fld, pokes>>
    /\ UNCHANGED <<tvars, ovars, xvars>>

\* op field: return op this->valueRef()
UnaryRvalue(op, f) ==
    /\ last' = NumResult("rvalue", f, ApplyUnary(op, FieldValue(NumField(f))))
    /\ plain' = [plain EXCEPT !.res = ApplyUnary(op, plain[f])]
    /\ UNCHANGED <<mem, raw, fld, pokes>>
    /\ UNCHANGED <<tvars, ovars, xvars>>

\* ++field: return ++this->valueRef(); field++: return this->valueRef()++
Increment(f, post) ==
    /\ LET old == FieldValue(NumField(f))
           new == ApplyOp("+", old, 1)
           pnew == ApplyOp("+", plain[f], 1)
       IN /\ mem' = [mem EXCEPT ![valueRef(NumField(f))] = new]
          /\ last' = NumResult(IF post THEN "post" ELSE "pre", f, IF post THEN old ELSE new)
          /\ plain' = [plain EXCEPT ![f] = pnew, !.res = IF post THEN plain[f] ELSE pnew]
    /\ UNCHANGED <<raw, fld, pokes>>
    /\ UNCHANGED <<tvars, ovars, xvars>>

\* --field: return --this->valueRef(); field--: return this->valueRef()--
Decrement(f, post) ==
    /\ LET old == FieldValue(NumField(f))
           new == ApplyOp("-", old, 1)
           pnew == ApplyOp("-", plain[f], 1)
       IN /\ mem' = [mem EXCEPT ![valueRef(NumField(f))] = new]
          /\ last' = NumResult(IF post THEN "post" ELSE "pre", f, IF post THEN old ELSE new)
          /\ plain' = [plain EXCEPT ![f] = pnew, !.res = IF post THEN plain[f] ELSE pnew]
    /\ UNCHANGED <<raw, fld, pokes>>
    /\ UNCHANGED <<tvars, ovars, xvars>>

\* wrapA is cast from an object whose members x and y hold any two values,
\* the plain variables start with the same values
InitNumeric ==
    /\ IdleTypes
    /\ IdleObjects
    /\ \E b \in BaseAddrs :
          raw = [v \in ViewInstances |-> IF v = "wrapA" THEN b ELSE NullPtr]
    /\ \E x0 \in NumVals, y0 \in NumVals :
          /\ mem = [InitialMem EXCEPT ![valueRef(NumField("x"))] = x0,
                                      ![valueRef(NumField("y"))] = y0]
          /\ plain = [x |-> x0, y |-> y0, res |-> -1]
    /\ fld = NumField("x")
    /\ last = NoOp
    /\ pokes = 0
    /\ IdleExtras

NextNumeric ==
    \/ \E op \in BinaryOps, f \in NumFields, o \in Operands : BinaryRvalue(op, f, o)
    \/ \E op \in BinaryOps, c \in Literals, f \in NumFields : LiteralOpField(op, c, f)
    \/ \E op \in CompoundOps, f \in NumFields, o \in Operands : CompoundAssignment(op, f, o)
    \/ \E op \in UnaryOps, f \in NumFields : UnaryRvalue(op, f)
    \/ \E f \in NumFields, post \in BOOLEAN : Increment(f, post)
    \/ \E f \in NumFields, post \in BOOLEAN : Decrement(f, post)

SpecNumeric == InitNumeric /\ [][NextNumeric]_vars

\* the address of member f of the object wrapA is bound to
Backing(f) == (raw["wrapA"] + (IF f = "x" THEN 0 ELSE PtrSize)) % AddrSpace

\* C10: every operation made through a numeric field gives the result the
\* same operation gives on the plain variable run side by side, and leaves
\* the backing values equal to the plain variables: arithmetic, bitwise,
\* comparison and logical operations (field op literal, literal op field,
\* field op field, also with the same field twice) change no memory;
\* compound assignments, increments and decrements store into the backing
\* value only; post forms return the old value and pre forms the new one;
\* all values wrap around at the width of the type.
C10_NumericFidelity ==
    [][ last'.fresh =>
          /\ last'.val = plain'.res
          /\ last'.val \in NumVals
          /\ \A f \in NumFields : mem'[Backing(f)] = plain'[f] /\ plain'[f] \in NumVals
          /\ last'.addr \in { Backing(f) : f \in NumFields }
          /\ mem' = [mem EXCEPT ![last'.addr] = mem'[last'.addr]]
          /\ raw' = raw
          /\ (last'.op = "rvalue" => mem' = mem)
          /\ (last'.op = "compound" => last'.val = mem'[last'.addr])
          /\ (last'.op = "pre" => last'.val = mem'[last'.addr])
          /\ (last'.op = "post" => last'.val = mem[last'.addr])
          /\ (last'.op \in {"pre", "post"} =>
                 \/ mem'[last'.addr] = (mem[last'.addr] + 1) % NumSpace
                 \/ mem'[last'.addr] = (mem[last'.addr] - 1) % NumSpace) ]_vars

C10_Witness ==
    /\ last.fresh
    /\ last.op = "post"
    /\ last.addr = Backing("y")
    /\ last.val = NumSpace - 1
    /\ mem[Backing("y")] = 0
    /\ plain["y"] = 0
    /\ plain["res"] = NumSpace - 1

(***************************************************************************)
(* View objects with Field members: assignment to and between fields,      *)
(* copy construction and copy assignment of views, rebinding.  wrapA and   *)
(* other are two instances of one wrapper class with the members x and y.  *)
(***************************************************************************)
\* the instances of the wrapper class
Views == {"wrapA", "other"}

\* offsetof(A, x), offsetof(A, y)
OffsetOf(n) == IF n = "x" THEN 0 ELSE PtrSize

\* the default member initializers of the wrapper class:
\* Field<T> x{this, offsetof(A, x)}; Field<T> y{this, offsetof(A, y)};
ClassMembers(this) == [n \in NumFields |-> FieldAtOffset(this, OffsetOf(n), FALSE)]

\* the members taken over from the source, one by one
CopyMembers_Memberwise(dst, src) == members[src]

\* classname(const classname& other) : base(other) {}: no member is named
\* in the initializer list, each is built by its default member initializer
CopyMembers(dst, src) == ClassMembers(dst)

\* view.f converted to a value: operator const RewrittenT& ()
MemberRead(v, f) ==
    /\ last' = [op |-> "read", addr |-> valueRef(members[v][f]),
                val |-> mem[valueRef(members[v][f])], reads |-> {}, fresh |-> TRUE]
    /\ UNCHANGED <<mem, raw, fld, pokes, plain, members, call>>
    /\ UNCHANGED <<tvars, xvars>>

\* view.f = val: return this->valueRef() = rhs
MemberAssignValue(v, f, val) ==
    /\ LET a   == valueRef(members[v][f])
           new == [mem EXCEPT ![a] = val]
       IN /\ mem' = new
          /\ last' = [op |-> "assign", addr |-> a, val |-> new[a], reads |-> {},
                      fresh |-> TRUE]
    /\ UNCHANGED <<raw, fld, pokes, plain, members, call>>
    /\ UNCHANGED <<tvars, xvars>>

\* v.f = w.g: return this->valueRef() = rhs.valueCRef()
MemberAssignField(v, f, w, g) ==
    /\ LET a   == valueRef(members[v][f])
           src == valueRef(members[w][g])
           new == [mem EXCEPT ![a] = mem[src]]
       IN /\ mem' = new
          /\ last' = [op |-> "copy", addr |-> a, val |-> new[a], reads |-> {src},
                      fresh |-> TRUE]
    /\ UNCHANGED <<raw, fld, pokes, plain, members, call>>
    /\ UNCHANGED <<tvars, xvars>>

\* classname dst{src}: ClassWrapper(const ClassWrapper& other) : m_raw{other.m_raw}
CopyConstruct(dst, src) ==
    /\ raw' = [raw EXCEPT ![dst] = raw[src]]
    /\ members' = [members EXCEPT ![dst] = CopyMembers(dst, src)]
    /\ last' = [op |-> "copy construct", addr |-> raw[src], val |-> -1, reads |-> {},
                fresh |-> TRUE]
    /\ UNCHANGED <<mem, fld, pokes, plain, call>>
    /\ UNCHANGED <<tvars, xvars>>

\* wrapper_cast<WrapperT>(void* raw): a wrapper constructed on raw
wrapper_cast_Deref(a) == mem[a]

wrapper_cast(a) == a

\* v = wrapper_cast<classname>(a): the view is bound to another object
Rebind(v, a) ==
    /\ raw[v] # wrapper_cast(a)
    /\ raw' = [raw EXCEPT ![v] = wrapper_cast(a)]
    /\ last' = [last EXCEPT !.fresh = FALSE]
    /\ UNCHANGED <<mem, fld, pokes, plain, members, call>>
    /\ UNCHANGED <<tvars, xvars>>

InitViews ==
    /\ IdleTypes
    /\ mem = InitialMem
    /\ \E b1 \in BaseAddrs : \E b2 \in BaseAddrs \ {b1} :
          raw = [v \in ViewInstances |->
                    IF v = "wrapA" THEN b1 ELSE IF v = "other" THEN b2 ELSE NullPtr]
    /\ members = [v \in ViewInstances |-> IF v \in Views THEN ClassMembers(v) ELSE << >>]
    /\ fld = Function(NullPtr)
    /\ last = NoOp
    /\ pokes = 0
    /\ plain = NoPlain
    /\ call = NoCall
    /\ IdleExtras

NextViews ==
    \/ \E v \in Views, f \in NumFields : MemberRead(v, f)
    \/ \E v \in Views, f \in NumFields, val \in WriteVals : MemberAssignValue(v, f, val)
    \/ \E v \in Views, f \in NumFields, w \in Views, g \in NumFields :
          MemberAssignField(v, f, w, g)
    \/ \E dst \in Views : \E src \in Views \ {dst} : CopyConstruct(dst, src)
    \/ \E dst \in Views : \E src \in Views \ {dst} : Assign(dst, src)
    \/ \E v \in Views, a \in BaseAddrs : Rebind(v, a)

SpecViews == InitViews /\ [][NextViews]_vars

\* the address of member f of the object view v is bound to
Slot(v, f) == (raw[v] + OffsetOf(f)) % AddrSpace

\* C11: assignment to a field has value semantics and never touches a
\* binding: field = val stores val in the member the field denotes and
\* returns val; fieldA = fieldB copies the value of the member fieldB denotes
\* to the member fieldA denotes (nothing changes when both are the same
\* field) and returns it; no base address changes, and after every step each
\* field has the parent and the resolver it was constructed with.
C11_AssignmentValueSemantics ==
    [][ /\ \A v \in Views, f \in NumFields, val \in WriteVals :
              MemberAssignValue(v, f, val) =>
                  /\ mem' = [mem EXCEPT ![Slot(v, f)] = val]
                  /\ last'.val = val
                  /\ raw' = raw
        /\ \A v \in Views, f \in NumFields, w \in Views, g \in NumFields :
              MemberAssignField(v, f, w, g) =>
                  /\ mem' = [mem EXCEPT ![Slot(v, f)] = mem[Slot(w, g)]]
                  /\ (v = w /\ f = g => mem' = mem)
                  /\ last'.val = mem[Slot(w, g)]
                  /\ raw' = raw
        /\ \A v \in Views, f \in NumFields :
              /\ members'[v][f].parent = v
              /\ members'[v][f].getter = OffsGetter(OffsetOf(f)) ]_vars

C11_Witness ==
    /\ last.fresh
    /\ last.op = "copy"
    /\ last.reads = {Slot("other", "y")}
    /\ last.addr = Slot("wrapA", "x")
    /\ raw["wrapA"] # raw["other"]
    /\ mem[Slot("wrapA", "x")] = mem[Slot("other", "y")]
    /\ mem[Slot("wrapA", "x")] # InitialMem[Slot("wrapA", "x")]
    /\ mem[Slot("wrapA", "x")] \notin WriteVals

\* C16: copying a view copies the binding, not the foreign data: after copy
\* construction or copy assignment the destination has the base address of
\* the source, the memory and the source are as before, and each field of
\* the destination has the destination as parent; at all times, also after
\* the source is rebound, each field of a view resolves against the base
\* address of that view.
C16_CopyCopiesBinding ==
    [][ /\ \A dst \in Views : \A src \in Views \ {dst} :
              (CopyConstruct(dst, src) \/ Assign(dst, src)) =>
                  /\ raw'[dst] = raw[src]
                  /\ raw'[src] = raw[src]
                  /\ mem' = mem
                  /\ members'[src] = members[src]
                  /\ \A f \in NumFields : members'[dst][f].parent = dst
        /\ \A v \in Views, f \in NumFields :
              CallGetter(members'[v][f].getter, raw'[members'[v][f].parent], mem')
                  = (raw'[v] + OffsetOf(f)) % AddrSpace ]_vars

C16_Witness ==
    /\ last.fresh
    /\ last.op = "copy construct"
    /\ raw["other"] = raw["wrapA"]
    /\ raw["other"] = last.addr
    /\ mem[Slot("other", "y")] \in WriteVals
    /\ \A f \in NumFields : members["other"][f].parent = "other"

(***************************************************************************)
(* A field from declaration to use: Field<T> is instantiated for the       *)
(* declared type T, the field is constructed as a member of wrapA, and the *)
(* operations its FieldImpl forwards are made through it.  A weak view     *)
(* reached through the field is evolved to the strong view `other'.        *)
(***************************************************************************)
\* most increments made through strong views in one run
MaxIncrements == 3

\* the declared types of the fields put to use: unqualified, of depth 0 or 1
LayoutTypes ==
    { t \in DeclaredTypes :
        /\ Len(t.layers) <= 1
        /\ \A i \in 1..Len(t.layers) : t.layers[i].cv = NoCv
        /\ t.base.cv = NoCv
        /\ t.base.name \in {"int", "V", "V2", "W"} }

\* Field<T> f{this, offset}, once Field<T> is instantiated
FieldConstruct(n) ==
    /\ pc = "done"
    /\ fld.kind # "field"
    /\ fld' = FieldAtOffset("wrapA", n, doExtraDref)
    /\ last' = NoOp
    /\ UNCHANGED <<mem, raw, pokes, plain, members, call>>
    /\ UNCHANGED <<tvars, xvars>>

\* the type of the elements of the wrapped array, or of the pointee
ElementType == Inner(rewritten)

PointerValue_NoLoad(f) == valueRef(f)

\* the wrapped object used as a pointer: an array decays to the address of
\* its first element, a pointer is read
PointerValue(f) == IF category = "array" THEN valueRef(f) ELSE mem[valueRef(f)]

\* the addresses read for it
PointerReads(f) == IF category = "array" THEN {} ELSE {valueRef(f)}

\* pointer arithmetic in bytes
PointerAdd_Bytes(p, k, t) == (p + k) % AddrSpace

\* built-in p + k on a pointer p to objects of type t
PointerAdd(p, k, t) == (p + k * SizeOf(t)) % AddrSpace

\* built-in p - q on two pointers to objects of type t
PointerDifference(p, q, t) == (p - q) \div SizeOf(t)

\* std::is_class of the element type (STRUCT_DEREFERENCE is forwarded)
IsClassElement ==
    /\ ElementType.layers = << >>
    /\ ~IsArithmetic(ElementType.base)
    /\ ~IsEnum(ElementType.base)

PointerResult(class, a, v) ==
    [op |-> class, addr |-> a, val |-> v, reads |-> PointerReads(fld), fresh |-> TRUE]

\* field[i]: return this->valueRef()[rhs]
ArraySubscript(i) ==
    /\ fld.kind = "field"
    /\ category \in {"array", "pointer"}
    /\ category = "array" => i < Head(rewritten.layers).n
    /\ last' = PointerResult("subscript", PointerAdd(PointerValue(fld), i, ElementType), i)
    /\ UNCHANGED <<mem, raw, fld, pokes, plain, members, call>>
    /\ UNCHANGED <<tvars, xvars>>

\* *field: return *this->valueRef()
Indirection ==
    /\ fld.kind = "field"
    /\ category \in {"array", "pointer"}
    /\ last' = PointerResult("indirection", PointerValue(fld), 0)
    /\ UNCHANGED <<mem, raw, fld, pokes, plain, members, call>>
    /\ UNCHANGED <<tvars, xvars>>

\* field + k: return this->valueCRef() + rhs
Add(k) ==
    /\ fld.kind = "field"
    /\ category \in {"array", "pointer"}
    /\ last' = PointerResult("add", PointerAdd(PointerValue(fld), k, ElementType), k)
    /\ UNCHANGED <<mem, raw, fld, pokes, plain, members, call>>
    /\ UNCHANGED <<tvars, xvars>>

\* field - k: return this->valueCRef() - rhs
Subtract(k) ==
    /\ fld.kind = "field"
    /\ category \in {"array", "pointer"}
    /\ last' = PointerResult("subtract", PointerAdd(PointerValue(fld), 0 - k, ElementType), k)
    /\ UNCHANGED <<mem, raw, fld, pokes, plain, members, call>>
    /\ UNCHANGED <<tvars, xvars>>

\* field - field: the right-hand field is converted by operator const RewrittenT& ()
SubtractField ==
    /\ fld.kind = "field"
    /\ category \in {"array", "pointer"}
    /\ last' = PointerResult("difference", PointerValue(fld),
                             PointerDifference(PointerValue(fld), PointerValue(fld), ElementType))
    /\ UNCHANGED <<mem, raw, fld, pokes, plain, members, call>>
    /\ UNCHANGED <<tvars, xvars>>

\* field->: StructDreference returns the decayed valueRef() of an array or a
\* pointer; FieldImpl for structs/classes returns &get()
StructDreference ==
    /\ fld.kind = "field"
    /\ \/ category \in {"array", "pointer"} /\ IsClassElement
       \/ category = "class"
    /\ last' = IF category = "class"
               THEN [op |-> "arrow", addr |-> valueRef(fld), val |-> 0, reads |-> {},
                     fresh |-> TRUE]
               ELSE PointerResult("arrow", PointerValue(fld), 0)
    /\ UNCHANGED <<mem, raw, fld, pokes, plain, members, call>>
    /\ UNCHANGED <<tvars, xvars>>

\* field.get(): return this->valueRef()
get ==
    /\ fld.kind = "field"
    /\ category = "class"
    /\ last' = [op |-> "get", addr |-> valueRef(fld), val |-> 0, reads |-> {},
                fresh |-> TRUE]
    /\ UNCHANGED <<mem, raw, fld, pokes, plain, members, call>>
    /\ UNCHANGED <<tvars, xvars>>

\* field.addressOfObj(): return &this->valueRef()
addressOfObj ==
    /\ fld.kind = "field"
    /\ last' = [op |-> "addressOfObj", addr |-> valueRef(fld), val |-> 0, reads |-> {},
                fresh |-> TRUE]
    /\ UNCHANGED <<mem, raw, fld, pokes, plain, members, call>>
    /\ UNCHANGED <<tvars, xvars>>

\* the type of the object the last operation designates
DesignatedType == IF category = "class" THEN rewritten ELSE ElementType

\* the last operation designates a weak view
DesignatesWeak ==
    /\ fld.kind = "field"
    /\ last.fresh
    /\ last.op \in {"subscript", "indirection", "arrow", "get"}
    /\ DesignatedType.layers = << >>
    /\ DesignatedType.base.kind = "weak"

\* weak.toStrong(): return wrapper_cast<WrapperT>(this); the strong view is
\* constructed with its members, the weak view stays as it is
toStrong ==
    /\ DesignatesWeak
    /\ raw' = [raw EXCEPT !["other"] = wrapper_cast(last.addr)]
    /\ members' = [members EXCEPT !["other"] = ClassMembers("other")]
    /\ UNCHANGED <<mem, fld, last, pokes, plain, call>>
    /\ UNCHANGED <<tvars, xvars>>

\* weak.raw(): return this
WeakRaw ==
    /\ DesignatesWeak
    /\ last' = [op |-> "raw", addr |-> last.addr, val |-> 0, reads |-> {}, fresh |-> TRUE]
    /\ UNCHANGED <<mem, raw, fld, pokes, plain, members, call>>
    /\ UNCHANGED <<tvars, xvars>>

\* wrapper_cast<WrapperT>(weak.raw())
WrapperCastRaw ==
    /\ fld.kind = "field"
    /\ last.fresh
    /\ last.op = "raw"
    /\ raw' = [raw EXCEPT !["other"] = wrapper_cast(last.addr)]
    /\ members' = [members EXCEPT !["other"] = ClassMembers("other")]
    /\ UNCHANGED <<mem, fld, last, pokes, plain, call>>
    /\ UNCHANGED <<tvars, xvars>>

\* strong.f++ through a member of the strong view: return this->valueRef()++;
\* plain.x counts the increments
MemberIncrement(f) ==
    /\ members["other"] # << >>
    /\ plain.x < MaxIncrements
    /\ LET a == valueRef(members["other"][f]) IN
          /\ mem' = [mem EXCEPT ![a] = (mem[a] + 1) % AddrSpace]
          /\ last' = [op |-> "post", addr |-> a, val |-> mem[a], reads |-> {},
                      fresh |-> TRUE]
    /\ plain' = [plain EXCEPT !.x = plain.x + 1]
    /\ UNCHANGED <<raw, fld, pokes, members, call>>
    /\ UNCHANGED <<tvars, xvars>>

InitLayout ==
    /\ InitTypes("field", LayoutTypes, {{}}, {NoBase})
    /\ mem = InitialMem
    /\ \E b \in BaseAddrs :
          raw = [v \in ViewInstances |-> IF v = "wrapA" THEN b ELSE NullPtr]
    /\ fld = Function(NullPtr)
    /\ last = NoOp
    /\ pokes = 0
    /\ plain = NoPlain
    /\ IdleObjects
    /\ IdleExtras

NextLayout ==
    \/ FieldInstantiate
    \/ AnalyzeLayer
    \/ AnalyzeFinal
    \/ RewriteStep2Plain
    \/ RewriteStep3Weak
    \/ RewriteStep3Reject
    \/ ApplyStep
    \/ ApplyDone
    \/ DispatchSelect
    \/ DispatchReject
    \/ \E n \in {0, PtrSize} : FieldConstruct(n)
    \/ category \in {"numeric", "pointer"} /\ FieldRead
    \/ \E v \in WriteVals : category \in {"numeric", "pointer"} /\ FieldWrite(v)
    \/ \E a \in AccessTargets, v \in PokeVals : fld.kind = "field" /\ Poke(a, v)
    \/ \E i \in 0..(MaxArrLen - 1) : ArraySubscript(i)
    \/ Indirection
    \/ \E k \in 1..MaxArrLen : Add(k)
    \/ \E k \in 1..MaxArrLen : Subtract(k)
    \/ SubtractField
    \/ StructDreference
    \/ get
    \/ addressOfObj
    \/ toStrong
    \/ WeakRaw
    \/ WrapperCastRaw
    \/ MemberIncrement("x")

SpecLayout == InitLayout /\ [][NextLayout]_vars

\* the address of the field's slot inside the object wrapA is bound to
FieldSlot == (raw["wrapA"] + fld.getter.a) % AddrSpace

\* the field is constructed and was declared as k of T (k: one layer)
DeclaredAs(k) ==
    /\ fld.kind = "field"
    /\ Len(declT.layers) = 1
    /\ declT.layers[1].k = k

\* the size of an element as the declaration gives it: the declared size N of
\* a view class, the size of int otherwise
DeclaredStride ==
    IF declT.base.name \in SizedViews THEN kObjSize(declT.base.name) ELSE IntSize

\* C12: for a field declared as an array T[K] whose slot is at address A,
\* subscript i designates A + i * stride, indirection designates A, field + k
\* and field - k give A + k * stride and A - k * stride, and field - field is
\* 0, where stride is the size of a plain element and the declared size N of
\* a view class V for an array of views; evolving element i of an array of
\* views gives a strong view whose base is A + i * N.
C12_ArrayFieldLayout ==
    [][ DeclaredAs("arr") =>
          LET A == FieldSlot
              N == DeclaredStride
          IN /\ \A i \in 0..(MaxArrLen - 1) :
                   ArraySubscript(i) => last'.addr = (A + i * N) % AddrSpace /\ mem' = mem
             /\ Indirection => last'.addr = A /\ mem' = mem
             /\ \A k \in 1..MaxArrLen :
                   /\ Add(k) => last'.addr = (A + k * N) % AddrSpace
                   /\ Subtract(k) => last'.addr = (A - k * N) % AddrSpace
             /\ SubtractField => last'.val = 0
             /\ (toStrong /\ last.op = "subscript") =>
                   /\ declT.base.name \in SizedViews
                   /\ raw'["other"] = (A + last.val * N) % AddrSpace
      ]_vars

C12_Witness ==
    /\ DeclaredAs("arr")
    /\ declT.base.name = "V2"
    /\ last.fresh
    /\ last.op = "subscript"
    /\ last.val = 1
    /\ raw["other"] = (FieldSlot + kObjSize("V2")) % AddrSpace
    /\ members["other"] # << >>

\* C13: evolving the weak view a field of view type embeds at address a gives
\* a strong view whose base is a, and changes neither memory nor the weak
\* view nor the field; field->toStrong(), field.get().toStrong() and a cast
\* of raw() all give that base, so that the writes made through the strong
\* views they return all land on the object at a.
C13_EvolveWeakToStrong ==
    [][ (fld.kind = "field" /\ declT.layers = << >> /\ declT.base.name \in SizedViews) =>
          LET a == FieldSlot
          IN /\ (StructDreference \/ get \/ WeakRaw) => last'.addr = a /\ mem' = mem
             /\ (toStrong \/ WrapperCastRaw) =>
                   /\ raw'["other"] = a
                   /\ raw'["wrapA"] = raw["wrapA"]
                   /\ mem' = mem
                   /\ last' = last
                   /\ fld' = fld
             /\ MemberIncrement("x") =>
                   /\ raw["other"] = a
                   /\ mem' = [mem EXCEPT ![a] = (mem[a] + 1) % AddrSpace]
      ]_vars

C13_Witness ==
    /\ fld.kind = "field"
    /\ declT.layers = << >>
    /\ declT.base.name = "V"
    /\ raw["other"] = FieldSlot
    /\ plain.x = MaxIncrements
    /\ pokes = 0
    /\ last.op = "post"
    /\ mem[FieldSlot] = (InitialMem[FieldSlot] + MaxIncrements) % AddrSpace

\* C14: the value of a field declared as a pointer is the pointer stored in
\* its slot (a read returns it, a write replaces it); indirection and -> reach
\* the pointee at the stored address; for a pointer to a view class the
\* pointee is a weak view at the stored pointer, and evolving it gives a
\* strong view with that base.
C14_PointerField ==
    [][ DeclaredAs("ptr") =>
          LET slot == FieldSlot
          IN /\ FieldRead => last'.addr = slot /\ last'.val = mem[slot]
             /\ \A v \in WriteVals : FieldWrite(v) => mem' = [mem EXCEPT ![slot] = v]
             /\ Indirection => last'.addr = mem[slot] /\ mem' = mem
             /\ StructDreference => last'.addr = mem[slot] /\ mem' = mem
             /\ (toStrong /\ last.op \in {"indirection", "arrow"}) =>
                   /\ declT.base.name \in SizedViews
                   /\ raw'["other"] = mem[slot]
                   /\ mem' = mem
      ]_vars

C14_Witness ==
    /\ DeclaredAs("ptr")
    /\ declT.base.name = "V"
    /\ last.fresh
    /\ last.op = "arrow"
    /\ mem[FieldSlot] \in WriteVals
    /\ mem[FieldSlot] # InitialMem[FieldSlot]
    /\ raw["other"] = mem[FieldSlot]

\* C15: a field declared as an lvalue reference resolves its slot and then
\* dereferences once more: reads and writes go to the referent, whose
\* address is the word stored in the slot, a write leaves the stored address
\* as it was, addressOfObj is the referent's address, and a referent of view
\* type is a weak view at the referent's address.
C15_LvalueReferenceField ==
    [][ DeclaredAs("lref") =>
          LET slot == FieldSlot
              referent == mem[FieldSlot]
          IN /\ FieldRead => last'.addr = referent /\ last'.val = mem[referent]
             /\ \A v \in WriteVals :
                   FieldWrite(v) =>
                      /\ mem' = [mem EXCEPT ![referent] = v]
                      /\ mem'[slot] = mem[slot]
             /\ addressOfObj => last'.addr = referent
             /\ (StructDreference \/ get) => last'.addr = referent
             /\ toStrong => raw'["other"] = referent /\ mem' = mem
      ]_vars

C15_Witness ==
    /\ DeclaredAs("lref")
    /\ declT.base.name = "int"
    /\ last.fresh
    /\ last.op = "write"
    /\ last.addr = mem[FieldSlot]
    /\ last.addr # FieldSlot
    /\ mem[FieldSlot] = InitialMem[FieldSlot]
    /\ mem[last.addr] \in WriteVals
    /\ mem[last.addr] # InitialMem[last.addr]

(***************************************************************************)
(* Calls through member-function wrappers.                                 *)
(***************************************************************************)
\* MemberFunction(ClassWrapper* parent, uintptr_t absAddress)
MemberFunction(parent, absAddress) ==
    [kind |-> "memberfn", parent |-> parent, getter |-> AbsGetter(absAddress), dref |-> FALSE]

\* the argument lists of the calls made
CallArgs == { <<a, b>> : a \in {1, 2}, b \in {2, 3} }

\* the foreign function at address fn, called on the object at thiz: like
\* A::add it returns a + b + c, c being the first word of the object; the
\* functions at different addresses differ by the address
CodeAt(fn, thiz, args, m) == (fn + args[1] + args[2] + m[thiz]) % AddrSpace

WrapperAddressOfObj_Null(v) == NullPtr

\* addressOfObj(WrapperT& wrapper): return wrapper.addressOfObj(), i.e. m_raw
WrapperAddressOfObj(v) == raw[v]

\* MemberFunctionImpl::operator ():
\* return get()(addressOfObj of the parent, std::forward<ArgsT>(args)...)
MemberCall(args) ==
    /\ fld.kind = "memberfn"
    /\ LET fn   == rawPtr(fld)
           thiz == WrapperAddressOfObj(fld.parent)
           ret  == CodeAt(fn, thiz, args, mem)
       IN /\ call' = [fn |-> fn, thiz |-> thiz, arg |-> args, ret |-> ret]
          /\ last' = [op |-> "call", addr |-> fn, val |-> ret,
                      reads |-> GetterReads(fld.getter, ParentRaw(fld), mem), fresh |-> TRUE]
    /\ UNCHANGED <<mem, raw, fld, pokes, plain, members>>
    /\ UNCHANGED <<tvars, xvars>>

CallDecls ==
    { MemberFunction("wrapA", a) : a \in {PtrSize, AddrSpace - 3} }
        \cup { VirtualFunction("wrapA", i, off) : i \in 0..MaxVfIdx, off \in {0, PtrSize} }

InitCall ==
    /\ IdleTypes
    /\ IdleObjects
    /\ mem = InitialMem
    /\ \E b \in BaseAddrs :
          raw = [v \in ViewInstances |-> IF v = "wrapA" THEN b ELSE NullPtr]
    /\ fld \in CallDecls
    /\ last = NoOp
    /\ pokes = 0
    /\ plain = NoPlain
    /\ IdleExtras

NextCall ==
    \/ \E args \in CallArgs : MemberCall(args)
    \/ \E a \in Addr, v \in PokeVals : Poke(a, v)
    \/ \E a \in BaseAddrs : Rebind("wrapA", a)

SpecCall == InitCall /\ [][NextCall]_vars

\* C17: a call through a member-function wrapper calls the function at the
\* address the wrapper's resolver yields at the time of the call (for a
\* virtual function: the slot of the table the object's table pointer
\* designates, read again at each call), passes the address of the object
\* the parent view is bound to as the first argument and the caller's
\* arguments after it in their order, and returns what the function returns.
C17_MemberFunctionCall ==
    [][ \A args \in CallArgs :
          MemberCall(args) =>
             LET b  == raw["wrapA"]
                 fn == IF fld.getter.g = "abs" THEN fld.getter.a
                       ELSE mem[(mem[(b + fld.getter.b) % AddrSpace]
                                     + fld.getter.a * PtrSize) % AddrSpace]
             IN /\ fld.parent = "wrapA"
                /\ call'.fn = fn
                /\ call'.thiz = b
                /\ call'.arg = args
                /\ call'.ret = (fn + args[1] + args[2] + mem[b]) % AddrSpace
                /\ last'.val = call'.ret
                /\ mem' = mem
      ]_vars

C17_Witness ==
    /\ fld.kind = "memberfn"
    /\ fld.getter.g = "vf"
    /\ last.fresh
    /\ last.op = "call"
    /\ pokes = 1
    /\ call.fn \in PokeVals
    /\ call.fn # CallGetter(fld.getter, raw["wrapA"], InitialMem)
    /\ call.thiz = raw["wrapA"]
    /\ call.arg = <<2, 3>>

(***************************************************************************)
(* Declarations the library documents as unsupported.                      *)
(***************************************************************************)
\* the declared type has an unknown-size-array or an rvalue-reference layer
HasUnsupportedLayer(t) ==
    \E i \in 1..Len(t.layers) : t.layers[i].k \in {"uarr", "rref"}

\* C18: every declared type that contains an unknown-size-array layer or an
\* rvalue-reference layer, outermost or under other layers, is rejected when
\* the field is declared: Field<T> is never instantiated, so no field is
\* constructed and no memory is accessed through one.
C18_UnsupportedLayersRejected ==
    (mode = "field" /\ HasUnsupportedLayer(declT)) => (pc # "done" /\ fld.kind # "field")

(***************************************************************************)
(* The dispatcher on its own: FieldImpl<T> instantiated for a type as it   *)
(* is, next to Field<T>, which prepares the type first.                    *)
(***************************************************************************)
\* internal::FieldImpl<T>: the type is dispatched as given
FieldImplInstantiate ==
    /\ pc = "start"
    /\ mode = "fieldimpl"
    /\ rewritten' = declT
    /\ pc' = "dispatch"
    /\ UNCHANGED <<mode, declT, incomplete, newB, pass, cur, qstack, stk1, baseT, acc,
                   doExtraDref, category, nInst, err>>
    /\ UNCHANGED <<rvars, xvars>>

InitDispatch ==
    /\ \E m \in {"field", "fieldimpl"} : InitTypes(m, DeclaredTypes, Scopes, {NoBase})
    /\ IdleRuntime

NextDispatch ==
    \/ NextField
    \/ FieldImplInstantiate

SpecDispatch == InitDispatch /\ [][NextDispatch]_vars

ARITHMETIC ==
    {"ASSIGN", "ADD", "SUBTRACT", "MULTIPLY", "DIVIDE", "MODULO", "UNARY_PLUS",
     "UNARY_MINUS", "INCREMENT", "DECREMENT"}

\* operators::BITWISE
BITWISE ==
    {"BITWISE_OR", "BITWISE_AND", "BITWISE_XOR", "BITWISE_NOT", "BITWISE_LEFT_SHIFT",
     "BITWISE_RIGHT_SHIFT"}

\* operators::COMPARE
COMPARE ==
    {"EQ_COMPARE", "NEQ_COMPARE", "GT_COMPARE", "LT_COMPARE", "GTE_COMPARE", "LTE_COMPARE"}

\* std::is_floating_point<T>
IsFloatingPoint(b) == b.name = "float"

\* std::is_unsigned<T>: unsigned integer types and bool
IsUnsigned(b) == b.name \in {"unsigned", "bool"}

\* std::is_same<T, bool>: the type itself, qualifiers included
IsSameAsBool(b) == b.name = "bool" /\ b.cv = NoCv

\* the flags of FieldImpl for arithmetic types and enums
NumericFlags(b) ==
    ((((ARITHMETIC \cup BITWISE \cup {"COMMA"} \cup COMPARE)
        \ (IF IsFloatingPoint(b) THEN {"BITWISE_NOT"} ELSE {}))
        \ (IF IsUnsigned(b) THEN {"UNARY_MINUS"} ELSE {}))
        \ (IF IsEnum(b) THEN {"INCREMENT", "DECREMENT"} ELSE {}))
        \ (IF IsSameAsBool(b) THEN {"INCREMENT", "DECREMENT", "BITWISE_NOT"} ELSE {})

\* the flags of FieldImpl for arrays and for pointers
PointerFlags(t) ==
    {"ARRAY_SUBSCRIPT", "INDIRECTION", "SUBTRACT", "ADD", "COMMA"}
        \cup (IF Inner(t).layers = << >> /\ ~IsArithmetic(t.base) /\ ~IsEnum(t.base)
              THEN {"STRUCT_DEREFERENCE"} ELSE {})

\* the operator forwarders the specialization c of FieldImpl<t> inherits
FieldImplFlags(c, t) ==
    CASE c = "numeric"              -> NumericFlags(t.base)
      [] c \in {"array", "pointer"} -> PointerFlags(t)
      [] c \in {"class", "enum class"} -> {"COMMA"}
      [] OTHER                      -> {}

\* the operators every numeric field forwards
NumericCore ==
    {"ASSIGN", "ADD", "SUBTRACT", "MULTIPLY", "DIVIDE", "MODULO", "UNARY_PLUS",
     "BITWISE_OR", "BITWISE_AND", "BITWISE_XOR", "BITWISE_LEFT_SHIFT",
     "BITWISE_RIGHT_SHIFT", "COMMA"} \cup COMPARE

\* C20 as stated: every arithmetic and every enumeration base type, scoped
\* or unscoped, is dispatched to the numeric specialization.
C20_EnumsAreNumeric ==
    (mode = "field" /\ pc = "done" /\ rewritten.layers = << >>
        /\ (IsArithmetic(declT.base) \/ IsEnum(declT.base)))
    => category = "numeric"

\* C20, amended: every arithmetic base type and every unscoped enumeration
\* base type is dispatched to the numeric specialization and forwards
\* assignment, arithmetic, bitwise and comparison operators; a scoped
\* enumeration is dispatched to a specialization of its own, which forwards
\* the comma operator only.
C20_UnscopedEnumsAreNumeric ==
    (mode = "field" /\ pc = "done" /\ rewritten.layers = << >>) =>
        /\ (IsArithmetic(declT.base) \/ declT.base.name = "E") =>
              /\ category = "numeric"
              /\ NumericCore \subseteq FieldImplFlags(category, rewritten)
        /\ declT.base.name = "EC" =>
              /\ category = "enum class"
              /\ FieldImplFlags(category, rewritten) = {"COMMA"}

C20_Witness ==
    /\ mode = "field"
    /\ pc = "done"
    /\ declT = MkType(<< >>, PlainBase("EC", NoCv))
    /\ category = "enum class"
    /\ nInst > 0

\* C21: in the numeric specialization increment and decrement are forwarded
\* if and only if the type is neither boolean nor an enumeration, and
\* bitwise-not if and only if the type is neither floating-point nor boolean,
\* const- and volatile-qualified booleans and floating-point types included.
C21_NumericSuppressions ==
    (mode = "field" /\ pc = "done" /\ category = "numeric") =>
        LET F       == FieldImplFlags(category, rewritten)
            boolean == declT.base.name = "bool"
            enum    == declT.base.name \in EnumNames
            float   == declT.base.name = "float"
        IN /\ ("INCREMENT" \in F) <=> ~(boolean \/ enum)
           /\ ("DECREMENT" \in F) <=> ~(boolean \/ enum)
           /\ ("BITWISE_NOT" \in F) <=> ~(float \/ boolean)

(***************************************************************************)
(* Optional<T>: OptionalImplBase and the constructors and assignment       *)
(* operators OptionalImpl forwards to it.                                  *)
(***************************************************************************)
\* the values held
OptVals == {1, 2}

\* ptr()->~T() and m_hasValue = false, if m_hasValue
destroyValue(r) ==
    IF r.hasValue
    THEN [r EXCEPT !.hasValue = FALSE, !.constructed = FALSE, !.val = NoValue]
    ELSE r

\* what goes wrong in destroyValue: the destructor runs on storage that holds
\* no value
DestroyFaults(r) ==
    IF r.hasValue /\ ~r.constructed THEN {"destroyed twice"} ELSE {}

\* new (ptr()) T{v}
PlacementNew(r, v) == [r EXCEPT !.constructed = TRUE, !.val = v]

\* what goes wrong in it: the value in the storage is overwritten without
\* having been destroyed
NewFaults(r) == IF r.constructed THEN {"constructed over a live value"} ELSE {}

\* *ptr() = v
AssignStored(r, v) == [r EXCEPT !.val = v]

\* the record of an operation
Result(op, o, v, f) ==
    [op |-> op, obj |-> o, val |-> v, fatal |-> FALSE, faults |-> ores.faults \cup f]

\* OptionalImplBase(EmptyT): m_hasValue{false}
OptionalEmpty(o) ==
    /\ ~ores.fatal
    /\ ~opt[o].alive
    /\ opt' = [opt EXCEPT ![o] = [alive |-> TRUE, hasValue |-> FALSE,
                                  constructed |-> FALSE, val |-> NoValue]]
    /\ ores' = Result("empty", o, NoValue, {})
    /\ UNCHANGED <<tvars, rvars, ivars>>

\* OptionalImplBase(InPlaceT, ArgsT... args): m_hasValue{true}, new (ptr()) T{args...}
OptionalInPlace(o, v) ==
    /\ ~ores.fatal
    /\ ~opt[o].alive
    /\ opt' = [opt EXCEPT ![o] = [alive |-> TRUE, hasValue |-> TRUE,
                                  constructed |-> TRUE, val |-> v]]
    /\ ores' = Result("in place", o, v, {})
    /\ UNCHANGED <<tvars, rvars, ivars>>

\* OptionalImpl(const T& other): copyConstruct(const T& obj) on the empty base
copyConstructObj(o, v) ==
    /\ ~ores.fatal
    /\ ~opt[o].alive
    /\ opt' = [opt EXCEPT ![o] = PlacementNew([alive |-> TRUE, hasValue |-> TRUE,
                                               constructed |-> FALSE, val |-> NoValue], v)]
    /\ ores' = Result("copy construct from value", o, v, {})
    /\ UNCHANGED <<tvars, rvars, ivars>>

\* OptionalImpl(T&& other): moveConstruct(T&& obj) on the empty base
moveConstructObj(o, v) ==
    /\ ~ores.fatal
    /\ ~opt[o].alive
    /\ opt' = [opt EXCEPT ![o] = PlacementNew([alive |-> TRUE, hasValue |-> TRUE,
                                               constructed |-> FALSE, val |-> NoValue], v)]
    /\ ores' = Result("move construct from value", o, v, {})
    /\ UNCHANGED <<tvars, rvars, ivars>>

\* OptionalImpl(const OptionalImpl& other): copyConstruct(other)
copyConstruct(o, other) ==
    /\ ~ores.fatal
    /\ ~opt[o].alive
    /\ opt[other].alive
    /\ LET base == [alive |-> TRUE, hasValue |-> opt[other].hasValue,
                    constructed |-> FALSE, val |-> NoValue]
       IN opt' = [opt EXCEPT ![o] = IF opt[other].hasValue
                                    THEN PlacementNew(base, opt[other].val)
                                    ELSE base]
    /\ ores' = Result("copy construct", o, opt[other].val, {})
    /\ UNCHANGED <<tvars, rvars, ivars>>

\* OptionalImpl(OptionalImpl&& other): moveConstruct(other)
moveConstruct(o, other) ==
    /\ ~ores.fatal
    /\ ~opt[o].alive
    /\ opt[other].alive
    /\ LET base == [alive |-> TRUE, hasValue |-> opt[other].hasValue,
                    constructed |-> FALSE, val |-> NoValue]
       IN opt' = [opt EXCEPT
                    ![o] = IF opt[other].hasValue
                           THEN PlacementNew(base, opt[other].val)
                           ELSE base,
                    ![other] = destroyValue(opt[other])]
    /\ ores' = Result("move construct", o, opt[other].val, DestroyFaults(opt[other]))
    /\ UNCHANGED <<tvars, rvars, ivars>>

\* operator = (const OptionalImpl& other): copyAssign(other)
copyAssign(o, other) ==
    /\ ~ores.fatal
    /\ opt[o].alive
    /\ opt[other].alive
    /\ LET me == opt[o]
           s1 == IF opt[other].hasValue
                 THEN [opt EXCEPT ![o] = IF me.hasValue
                                         THEN AssignStored(me, opt[other].val)
                                         ELSE PlacementNew(me, opt[other].val)]
                 ELSE [opt EXCEPT ![o] = destroyValue(me)]
           f  == IF opt[other].hasValue
                 THEN (IF me.hasValue THEN {} ELSE NewFaults(me))
                 ELSE DestroyFaults(me)
       IN /\ opt' = [s1 EXCEPT ![o].hasValue = s1[other].hasValue]
          /\ ores' = Result("copy assign", o, opt[other].val, f)
    /\ UNCHANGED <<tvars, rvars, ivars>>

\* operator = (OptionalImpl&& other): moveAssign(other)
moveAssign(o, other) ==
    /\ ~ores.fatal
    /\ opt[o].alive
    /\ opt[other].alive
    /\ LET me == opt[o]
           s1 == IF opt[other].hasValue
                 THEN [opt EXCEPT ![o] = IF me.hasValue
                                         THEN AssignStored(me, opt[other].val)
                                         ELSE PlacementNew(me, opt[other].val)]
                 ELSE [opt EXCEPT ![o] = destroyValue(me)]
           s2 == IF opt[other].hasValue
                 THEN [s1 EXCEPT ![other] = destroyValue(s1[other])]
                 ELSE s1
           f  == IF opt[other].hasValue
                 THEN (IF me.hasValue THEN {} ELSE NewFaults(me))
                         \cup DestroyFaults(s1[other])
                 ELSE DestroyFaults(me)
       IN /\ opt' = [s2 EXCEPT ![o].hasValue = s2[other].hasValue]
          /\ ores' = Result("move assign", o, opt[other].val, f)
    /\ UNCHANGED <<tvars, rvars, ivars>>

\* operator = (const T& other): copyAssign(const T& obj)
copyAssignObj(o, v) ==
    /\ ~ores.fatal
    /\ opt[o].alive
    /\ LET d == destroyValue(opt[o])
       IN /\ opt' = [opt EXCEPT ![o] = [PlacementNew(d, v) EXCEPT !.hasValue = TRUE]]
          /\ ores' = Result("copy assign from value", o, v,
                            DestroyFaults(opt[o]) \cup NewFaults(d))
    /\ UNCHANGED <<tvars, rvars, ivars>>

\* operator = (T&& other): moveAssign(T&& obj)
moveAssignObj(o, v) ==
    /\ ~ores.fatal
    /\ opt[o].alive
    /\ LET d == destroyValue(opt[o])
       IN /\ opt' = [opt EXCEPT ![o] = [PlacementNew(d, v) EXCEPT !.hasValue = TRUE]]
          /\ ores' = Result("move assign from value", o, v,
                            DestroyFaults(opt[o]) \cup NewFaults(d))
    /\ UNCHANGED <<tvars, rvars, ivars>>

\* value(): fatalExit if there is no value, else *ptr()
value(o) ==
    /\ ~ores.fatal
    /\ opt[o].alive
    /\ ores' = IF opt[o].hasValue
               THEN Result("value", o, opt[o].val, {})
               ELSE [Result("value", o, NoValue, {}) EXCEPT !.fatal = TRUE]
    /\ UNCHANGED opt
    /\ UNCHANGED <<tvars, rvars, ivars>>

\* release(): tmp = std::move(value()); destroyValue(); return tmp
release(o) ==
    /\ ~ores.fatal
    /\ opt[o].alive
    /\ IF opt[o].hasValue
       THEN /\ opt' = [opt EXCEPT ![o] = destroyValue(opt[o])]
            /\ ores' = Result("release", o, opt[o].val, DestroyFaults(opt[o]))
       ELSE /\ opt' = opt
            /\ ores' = [Result("release", o, NoValue, {}) EXCEPT !.fatal = TRUE]
    /\ UNCHANGED <<tvars, rvars, ivars>>

\* ~OptionalImplBase(): destroyValue(); a value still in the storage after it
\* is never destroyed
OptionalDestruct(o) ==
    /\ ~ores.fatal
    /\ opt[o].alive
    /\ opt' = [opt EXCEPT ![o] = NoOptional]
    /\ ores' = Result("destruct", o, NoValue,
                      DestroyFaults(opt[o])
                         \cup (IF destroyValue(opt[o]).constructed
                               THEN {"never destroyed"} ELSE {}))
    /\ UNCHANGED <<tvars, rvars, ivars>>

InitOptional ==
    /\ IdleTypes
    /\ IdleRuntime

NextOptional ==
    \/ \E o \in Opts : OptionalEmpty(o)
    \/ \E o \in Opts, v \in OptVals : OptionalInPlace(o, v)
    \/ \E o \in Opts, v \in OptVals : copyConstructObj(o, v)
    \/ \E o \in Opts, v \in OptVals : moveConstructObj(o, v)
    \/ \E o \in Opts : \E other \in Opts \ {o} : copyConstruct(o, other)
    \/ \E o \in Opts : \E other \in Opts \ {o} : moveConstruct(o, other)
    \/ \E o \in Opts, other \in Opts : copyAssign(o, other)
    \/ \E o \in Opts, other \in Opts : moveAssign(o, other)
    \/ \E o \in Opts, v \in OptVals : copyAssignObj(o, v)
    \/ \E o \in Opts, v \in OptVals : moveAssignObj(o, v)
    \/ \E o \in Opts : value(o)
    \/ \E o \in Opts : release(o)
    \/ \E o \in Opts : OptionalDestruct(o)

SpecOptional == InitOptional /\ [][NextOptional]_vars

\* C23: after move construction or move assignment from an Optional that
\* holds a value the destination holds that value and the source is empty;
\* release() returns the value held and leaves the Optional empty; copy
\* construction and copy assignment leave the source as it was and the
\* destination holding an equal value.
C23_TransferEmptiesSource ==
    [][ \A o \in Opts :
          /\ \A other \in Opts \ {o} :
                opt[other].hasValue =>
                   /\ (moveConstruct(o, other) \/ moveAssign(o, other)) =>
                         /\ opt'[o].hasValue
                         /\ opt'[o].val = opt[other].val
                         /\ ~opt'[other].hasValue
                   /\ (copyConstruct(o, other) \/ copyAssign(o, other)) =>
                         /\ opt'[o].hasValue
                         /\ opt'[o].val = opt[other].val
                         /\ opt'[other] = opt[other]
          /\ (release(o) /\ opt[o].hasValue) =>
                (ores'.val = opt[o].val /\ ~opt'[o].hasValue)
      ]_vars

\* C29: whatever operations were made, hasValue() is true exactly when the
\* storage holds a constructed value that has not been destroyed; no value
\* is destroyed twice, overwritten without being destroyed or left
\* undestroyed, and value() on an empty Optional ends in the fatal exit.
C29_OptionalStorageInvariant ==
    /\ \A o \in Opts : opt[o].alive => (opt[o].hasValue <=> opt[o].constructed)
    /\ ores.faults = {}
    /\ ores.fatal => (ores.op \in {"value", "release"} /\ ~opt[ores.obj].hasValue)

(***************************************************************************)
(* Module::getModule and a field bound to the module it returns.           *)
(***************************************************************************)
\* what platform::obtainModuleHandle can return: nullptr if the module is
\* not loaded, else the address of the module's first byte
ModuleHandles == {NullPtr} \cup BaseAddrs

\* the module is wrapped whether the handle is null or not
ModuleResult_NoCheck(modulePtr) ==
    [alive |-> TRUE, hasValue |-> TRUE, constructed |-> TRUE, val |-> wrapper_cast(modulePtr)]

\* if (!modulePtr) return zycore::kEmpty;
\* return {zycore::kInPlace, wrapper_cast<Module>(modulePtr)}
ModuleResult(modulePtr) ==
    IF modulePtr = NullPtr
    THEN [alive |-> TRUE, hasValue |-> FALSE, constructed |-> FALSE, val |-> NoValue]
    ELSE [alive |-> TRUE, hasValue |-> TRUE, constructed |-> TRUE,
          val |-> wrapper_cast(modulePtr)]

\* auto mainModule = Module::getModule(name), the lookup returning modulePtr;
\* the Module held by the Optional is the view instance "module"
getModule(modulePtr) ==
    /\ ~ores.fatal
    /\ ~opt["a"].alive
    /\ opt' = [opt EXCEPT !["a"] = ModuleResult(modulePtr)]
    /\ raw' = [raw EXCEPT !["module"] =
                  IF ModuleResult(modulePtr).hasValue THEN ModuleResult(modulePtr).val
                  ELSE raw["module"]]
    /\ ores' = Result("getModule", "a", modulePtr, {})
    /\ UNCHANGED <<mem, fld, last, pokes, plain, members, call>>
    /\ UNCHANGED <<tvars, ivars>>

\* Field<int> f{addressOfWrapper(mainModule.value()), d}
ModuleField(d) ==
    /\ ~ores.fatal
    /\ opt["a"].alive
    /\ fld.kind # "field"
    /\ IF opt["a"].hasValue
       THEN /\ fld' = FieldAtOffset("module", d, FALSE)
            /\ ores' = Result("value", "a", opt["a"].val, {})
       ELSE /\ fld' = fld
            /\ ores' = [Result("value", "a", NoValue, {}) EXCEPT !.fatal = TRUE]
    /\ UNCHANGED <<mem, raw, last, pokes, plain, members, call, opt>>
    /\ UNCHANGED <<tvars, ivars>>

InitModule ==
    /\ IdleTypes
    /\ IdleRuntime

NextModule ==
    \/ \E h \in ModuleHandles : getModule(h)
    \/ \E d \in Offsets : ModuleField(d)
    \/ fld.kind = "field" /\ FieldRead
    \/ \E v \in WriteVals : fld.kind = "field" /\ FieldWrite(v)
    \/ \E a \in Addr, v \in PokeVals : Poke(a, v)

SpecModule == InitModule /\ [][NextModule]_vars

\* C22: getModule reports a module that is not loaded as an empty optional
\* and never ends in the fatal exit; for a handle h it returns a non-empty
\* optional holding a module view bound to h, and a field bound to that view
\* with offset d accesses h + d.
C22_ModuleLookup ==
    [][ /\ \A h \in ModuleHandles :
              getModule(h) =>
                 /\ opt'["a"].alive
                 /\ ~ores'.fatal
                 /\ h = NullPtr => ~opt'["a"].hasValue
                 /\ h # NullPtr =>
                       (opt'["a"].hasValue /\ opt'["a"].val = h /\ raw'["module"] = h)
        /\ \A d \in Offsets :
              (ModuleField(d) /\ opt["a"].hasValue) =>
                 (fld'.parent = "module" /\ ~ores'.fatal)
        /\ (fld.kind = "field" /\ FieldRead) =>
              /\ last'.addr = (opt["a"].val + fld.getter.a) % AddrSpace
              /\ last'.val = mem[(opt["a"].val + fld.getter.a) % AddrSpace]
        /\ \A v \in WriteVals :
              (fld.kind = "field" /\ FieldWrite(v)) =>
                 mem' = [mem EXCEPT ![(opt["a"].val + fld.getter.a) % AddrSpace] = v]
      ]_vars

C22_Witness ==
    /\ opt["a"].hasValue
    /\ opt["a"].val \in BaseAddrs
    /\ fld.kind = "field"
    /\ fld.getter.a # 0
    /\ last.fresh
    /\ last.op = "read"
    /\ last.addr = (opt["a"].val + fld.getter.a) % AddrSpace
    /\ last.val \in WriteVals

(***************************************************************************)
(* InstantiableWrapper<WrapperT>: WrapperT::Instantiable.                  *)
(***************************************************************************)
\* most accesses the user makes to one instance
MaxUses == 2

\* view classes: WrapA defines neither routine, WrapACustomCtor defines
\* construct(int, float, double), WrapACustomDtor defines destruct(), Cat
\* defines construct(), construct(age, gender, fleas) and destruct()
InstClasses == {"WrapA", "WrapACustomCtor", "WrapACustomDtor", "Cat"}

\* the numbers of parameters of the construct routines a class defines
ConstructArities(c) ==
    CASE c = "WrapACustomCtor" -> {3}
      [] c = "Cat"             -> {0, 3}
      [] OTHER                 -> {}

\* the class defines destruct()
DefinesDestruct(c) == c \in {"WrapACustomDtor", "Cat"}

\* WrapperT::kObjSize
InstObjSize(c) == IF c = "Cat" THEN 6 ELSE 16

\* the constructor arguments of a run
CtorArgs == { << >>, <<1, 2, 3>>, <<3, 2, 1>> }

\* HasCustomCtor::Value: decltype(&C::construct) is well-formed, which it is
\* for a single construct and is not for an overloaded one
HasCustomCtor(c) == Cardinality(ConstructArities(c)) = 1

\* HasCustomDtor::Value: decltype(&C::destruct) is well-formed
HasCustomDtor(c) == DefinesDestruct(c)

\* InstantiableWrapper(ArgsT&&... args) : WrapperT{&m_data}; with a custom
\* constructor the arguments must fit construct, else the program does not
\* compile
InstantiableBind(c, args) ==
    /\ inst.pc = "none"
    /\ HasCustomCtor(c) => Len(args) \in ConstructArities(c)
    /\ inst' = [pc |-> "bound", class |-> c, args |-> args, base |-> "m_data",
                size |-> InstObjSize(c), data |-> NoValue, ctor |-> << >>, dtor |-> 0,
                used |-> 0]
    /\ UNCHANGED <<tvars, rvars, opt, ores, thr>>

\* InstantiableWrapperCtorCaller<WrapperT, HasCustomCtor::Value, ArgsT...>::Call:
\* thiz->construct(args...) or nothing
InstantiableCtorCall ==
    /\ inst.pc = "bound"
    /\ inst' = IF HasCustomCtor(inst.class)
               THEN [inst EXCEPT !.pc = "live",
                                 !.ctor = Append(inst.ctor, inst.args),
                                 !.data = IF inst.args = << >> THEN 0 ELSE inst.args[1]]
               ELSE [inst EXCEPT !.pc = "live"]
    /\ UNCHANGED <<tvars, rvars, opt, ores, thr>>

\* the user writes a field of the constructed instance
InstantiableUse(v) ==
    /\ inst.pc = "live"
    /\ inst.used < MaxUses
    /\ inst' = [inst EXCEPT !.used = inst.used + 1, !.data = v]
    /\ UNCHANGED <<tvars, rvars, opt, ores, thr>>

\* ~InstantiableWrapper: InstantiableWrapperDtorCaller<WrapperT,
\* HasCustomDtor::Value>::Call: thiz->destruct() or nothing
InstantiableDtorCall ==
    /\ inst.pc = "live"
    /\ inst' = IF HasCustomDtor(inst.class)
               THEN [inst EXCEPT !.pc = "dead", !.dtor = inst.dtor + 1]
               ELSE [inst EXCEPT !.pc = "dead"]
    /\ UNCHANGED <<tvars, rvars, opt, ores, thr>>

InitInstantiable ==
    /\ IdleTypes
    /\ IdleRuntime

NextInstantiable ==
    \/ \E c \in InstClasses, args \in CtorArgs : InstantiableBind(c, args)
    \/ InstantiableCtorCall
    \/ \E v \in OptVals : InstantiableUse(v)
    \/ InstantiableDtorCall

SpecInstantiable == InitInstantiable /\ [][NextInstantiable]_vars

\* C24: construction binds the view to its own buffer of the declared size
\* and then calls construct exactly once with the constructor arguments if
\* the view defines one, and nothing otherwise; destruction calls destruct
\* exactly once if the view defines one; construct precedes every user access
\* and destruct, and neither routine runs more than once.
C24_InstantiableLifecycle ==
    inst.pc # "none" =>
        /\ inst.base = "m_data"
        /\ inst.size = InstObjSize(inst.class)
        /\ inst.pc = "bound" => (inst.ctor = << >> /\ inst.used = 0 /\ inst.dtor = 0)
        /\ inst.pc \in {"live", "dead"} =>
              inst.ctor = IF ConstructArities(inst.class) # {} THEN <<inst.args>> ELSE << >>
        /\ inst.pc = "live" => inst.dtor = 0
        /\ inst.pc = "dead" => inst.dtor = IF DefinesDestruct(inst.class) THEN 1 ELSE 0

\* C25: for a view with several construct routines the overload that fits the
\* constructor arguments runs: the three-parameter one for (age, gender,
\* fleas), the parameterless one for no arguments.
C25_ConstructOverloadSelected ==
    (inst.pc \in {"live", "dead"} /\ Cardinality(ConstructArities(inst.class)) > 1) =>
        (Len(inst.ctor) = 1 /\ Len(inst.ctor[1]) = Len(inst.args) /\ inst.ctor[1] = inst.args)

(***************************************************************************)
(* Threads: each thread reads and writes through fields of its own view;   *)
(* an access is the computation of valueRef() followed by one load or one  *)
(* store, and the steps of the threads interleave.                         *)
(***************************************************************************)
\* most accesses one thread makes
MaxThreadOps == 2

Threads == {"t1", "t2"}

\* the view instance a thread uses
ThreadView(t) == IF t = "t1" THEN "wrapA" ELSE "other"

\* the offsets of the fields of a view
ThreadOffsets == {0, 1}

\* the field of the thread's view at offset n
ThreadField(t, n) == FieldAtOffset(ThreadView(t), n, FALSE)

\* the foreign memory the fields of a thread's view denote
Region(t) == { valueRef(ThreadField(t, n)) : n \in ThreadOffsets }

\* a thread that has not started: own is what its region holds when its
\* accesses are applied to it and nothing else is
NoThread(t) ==
    [pc |-> "idle", field |-> 0, addr |-> NullPtr, op |-> "none", val |-> NoValue, n |-> 0,
     seen |-> NoValue, alone |-> NoValue, own |-> [a \in Region(t) |-> InitialMem[a]]]

\* valueRef() whose result is kept in one place for all the threads
ThreadResolve_Shared(t, n, op, v) ==
    /\ thr[t].pc = "idle"
    /\ thr[t].n < MaxThreadOps
    /\ thr' = [u \in Threads |->
                 IF u = t
                 THEN [thr[u] EXCEPT !.pc = "resolved", !.field = n,
                                     !.addr = valueRef(ThreadField(t, n)),
                                     !.op = op, !.val = v]
                 ELSE [thr[u] EXCEPT !.addr = valueRef(ThreadField(t, n))]]
    /\ UNCHANGED <<tvars, rvars, opt, ores, inst>>

\* the first half of an access to the field at offset n: valueRef() computes
\* the address from the thread's own field and its own parent
ThreadResolve(t, n, op, v) ==
    /\ thr[t].pc = "idle"
    /\ thr[t].n < MaxThreadOps
    /\ thr' = [thr EXCEPT ![t].pc = "resolved", ![t].field = n,
                          ![t].addr = valueRef(ThreadField(t, n)),
                          ![t].op = op, ![t].val = v]
    /\ UNCHANGED <<tvars, rvars, opt, ores, inst>>

\* operator const RewrittenT& (): the load from the resolved address; alone
\* is what the field holds when only this thread's accesses are applied
ThreadLoad(t) ==
    /\ thr[t].pc = "resolved"
    /\ thr[t].op = "read"
    /\ thr' = [thr EXCEPT ![t].pc = "idle", ![t].n = thr[t].n + 1,
                          ![t].seen = mem[thr[t].addr],
                          ![t].alone = thr[t].own[valueRef(ThreadField(t, thr[t].field))]]
    /\ UNCHANGED <<tvars, rvars, opt, ores, inst>>

\* operator = (const RewrittenT& rhs): the store to the resolved address
ThreadStore(t) ==
    /\ thr[t].pc = "resolved"
    /\ thr[t].op = "write"
    /\ mem' = [mem EXCEPT ![thr[t].addr] = thr[t].val]
    /\ thr' = [thr EXCEPT ![t].pc = "idle", ![t].n = thr[t].n + 1,
                          ![t].own = [thr[t].own EXCEPT
                                         ![valueRef(ThreadField(t, thr[t].field))] = thr[t].val]]
    /\ UNCHANGED <<raw, fld, last, pokes, plain, members, call>>
    /\ UNCHANGED <<tvars, opt, ores, inst>>

\* two threads about to start, their views bound to two different objects
InitThreads ==
    /\ IdleTypes
    /\ IdleObjects
    /\ mem = InitialMem
    /\ \E b1 \in BaseAddrs : \E b2 \in BaseAddrs \ {b1} :
          raw = [v \in ViewInstances |->
                    IF v = "wrapA" THEN b1 ELSE IF v = "other" THEN b2 ELSE NullPtr]
    /\ fld = Function(NullPtr)
    /\ last = NoOp
    /\ pokes = 0
    /\ plain = NoPlain
    /\ IdleOptional
    /\ inst = NoInstance
    /\ thr = [t \in Threads |-> NoThread(t)]

NextThreads ==
    \/ \E t \in Threads, n \in ThreadOffsets : ThreadResolve(t, n, "read", NoValue)
    \/ \E t \in Threads, n \in ThreadOffsets, v \in WriteVals : ThreadResolve(t, n, "write", v)
    \/ \E t \in Threads : ThreadLoad(t)
    \/ \E t \in Threads : ThreadStore(t)

SpecThreads == InitThreads /\ [][NextThreads]_vars

\* C27: two threads that read and write through their own views, whose
\* fields denote disjoint memory, do not interfere: under every interleaving
\* of their steps each read yields the value the thread would read running
\* alone, and each thread's memory region holds what its own sequence of
\* writes puts there.
C27_ThreadsDoNotInterfere ==
    /\ Region("t1") \cap Region("t2") = {}
    /\ \A t \in Threads :
          /\ thr[t].seen = thr[t].alone
          /\ thr[t].pc = "resolved" => thr[t].addr \in Region(t)
          /\ \A a \in Region(t) :
                mem[a] = thr[t].own[a]

C27_Witness ==
    /\ \A t \in Threads : thr[t].n = MaxThreadOps
    /\ thr["t1"].seen \in WriteVals
    /\ thr["t2"].seen \in WriteVals
    /\ thr["t1"].seen # thr["t2"].seen
    /\ \A t \in Threads : \E a \in Region(t) : mem[a] # InitialMem[a]

(***************************************************************************)
(* RewriteWrappers applied to its own result.                              *)
(***************************************************************************)
\* RewriteWrappers<RewriteWrappers<T>>: the type the first application
\* yielded is the declared type of the second
RewriteAgain ==
    /\ mode = "rewrite"
    /\ pc = "done"
    /\ pass = 1
    /\ declT' = rewritten
    /\ cur' = rewritten
    /\ pass' = 2
    /\ pc' = "analyze"
    /\ UNCHANGED <<mode, incomplete, newB, qstack, stk1, baseT, acc, rewritten,
                   doExtraDref, category, nInst, err>>
    /\ UNCHANGED <<rvars, xvars>>

NextRewriteTwice ==
    \/ NextRewrite
    \/ RewriteAgain

SpecRewriteTwice == InitRewrite /\ [][NextRewriteTwice]_vars

\* C30: rewriting is idempotent: for every declared type T that
\* RewriteWrappers accepts, RewriteWrappers applied to the rewritten type is
\* accepted too and yields the rewritten type again, and the base of a
\* rewritten type is never a view type.
C30_RewriteIdempotent ==
    /\ (mode = "rewrite" /\ pass = 2) => ~IsWrapper(declT.base)
    /\ (mode = "rewrite" /\ pass = 2 /\ Terminal) => (pc = "done" /\ rewritten = declT)

C30_Witness ==
    /\ mode = "rewrite"
    /\ pass = 2
    /\ pc = "done"
    /\ Len(declT.layers) = MaxDepth
    /\ declT.base.kind = "weak"
    /\ declT.base.argcv # NoCv
    /\ rewritten = declT

====
